---------------------------- MODULE Spec2Model ----------------------------
(***************************************************************************)
(* Model of the subtitle segmentation and timing-alignment engine of the   *)
(* Tanglish subtitle backend (api/services/srt_service.py and              *)
(* api/services/whisper_functions.py).                                     *)
(*                                                                         *)
(* Conventions.                                                            *)
(*  - A Python str is a sequence of one-character strings; a list is a     *)
(*    sequence; a dict with fixed keys is a record, a dict that grows a    *)
(*    function.                                                            *)
(*  - Times are integer milliseconds (0.8 s = 800) and are compared as     *)
(*    exact decimals.  Where the code forms a quotient of floats that is   *)
(*    not a whole number of milliseconds the model rounds it down to the   *)
(*    millisecond.                                                         *)
(*  - The run boundaries of the merge regime of align_text_to_timing and   *)
(*    the millisecond field of format_timestamp are computed in IEEE-754   *)
(*    binary64, as Python computes them; format_timestamp is applied to    *)
(*    the float nearest to the time.                                       *)
(*                                                                         *)
(* Specifications: SpecSplit (split_text_into_segments), SpecNorm          *)
(* (generate_precise_timed_segments), SpecFallback                         *)
(* (create_smart_fallback_segments), SpecAlign (align_text_to_timing),     *)
(* SpecEmptyCall (the three functions on empty input), SpecSrt             *)
(* (create_srt_content), SpecTimestamp (format_timestamp), Spec            *)
(* (generate_all_srt_files_improved, the whole pipeline), SpecLock (the    *)
(* cleanup lock of cleanup_manager.py, taken by several processes),        *)
(* SpecRoutes (POST /process, its background threads and the status        *)
(* streams of api/routes.py for one upload) and SpecRoutesFair (the same   *)
(* with every started thread scheduled again and again).                   *)
(***************************************************************************)
EXTENDS Integers, Sequences, FiniteSets, TLC

VARIABLES
    pc,                 \* which function is running / has returned
    text,               \* split_text_into_segments: argument text
    max_chars,          \* split_text_into_segments: argument max_chars
    max_words,          \* split_text_into_segments: argument max_words
    segments,           \* split_text_into_segments: returned list
    av_offset,          \* generate_precise_timed_segments: av_offset
    yielded,            \* number of segments the recognizer has yielded so far
    timed_segments,     \* generate_precise_timed_segments: timed_segments
    cleaned_segments,   \* generate_precise_timed_segments: cleaned_segments
    absorbed,           \* history: absorbed[k] iff cleaned_segments[k] took a merge
    idx,                \* generate_precise_timed_segments: i of the second loop
    video_duration,     \* get_video_duration(video_path); 0 stands for None
    audio_duration,     \* len(AudioSegment.from_file(audio_path)) / 1000.0
    fallback_segments,  \* create_smart_fallback_segments: returned timed_segments
    base_timed_segments, \* align_text_to_timing: argument base_timed_segments
    new_text,           \* align_text_to_timing: argument new_text
    language_hint,      \* align_text_to_timing: argument language_hint
    aligned_segments,   \* align_text_to_timing: returned aligned_segments
    srt_content,        \* create_srt_content: returned srt_content (its blocks)
    results,            \* generate_all_srt_files_improved: argument results
    recognized,         \* the segments model.transcribe returned to the pipeline
    lang_index,         \* which of the four language blocks runs next (1..4)
    srt_files,          \* generate_all_srt_files_improved: srt_files (key -> path)
    files,              \* the subtitle files in upload_dir (path -> content)
    warnings,           \* keys the validation of lines 421-434 warned about
    returned,           \* what generate_all_srt_files_improved returned
    seconds_in,         \* format_timestamp: argument seconds
    timestamp,          \* format_timestamp: the string it returned
    lock_file,          \* cleanup lock: the inode the lock file path names, 0 if none
    inode_count,        \* cleanup lock: number of lock files created so far
    flock_owner,        \* cleanup lock: inode -> process whose open file holds the flock, 0 if none
    lock_fd,            \* cleanup lock: process -> inode of self.lock_fd, 0 unset, -1 closed
    is_master_process,  \* cleanup lock: process -> self.is_master_process
    lock_at,            \* cleanup lock: process -> the line it is about to run
    lock_caller,        \* cleanup lock: process -> the method that called acquire / release
    processing_status,  \* routes: processing_status[upload_id]['status'], "none" if no entry
    sse_clients,        \* routes: sse_clients[upload_id], the registered client queues
    request_at,         \* routes: POST /process request -> the line it is about to run
    request_answer,     \* routes: POST /process request -> the answer it gave
    job_at,             \* routes: process_video_async thread -> where it is
    job_data,           \* routes: thread -> status_data of the broadcast it is in
    job_progress,       \* routes: thread -> progress broadcasts it has made
    client_at,          \* routes: status_stream connection -> where event_generator is
    client_queue,       \* routes: connection -> content of its client_queue
    sent                \* routes: connection -> the status events yielded to the client

splitVars == <<text, max_chars, max_words, segments>>
normVars == <<av_offset, yielded, timed_segments, cleaned_segments, absorbed, idx>>
fallbackVars == <<video_duration, audio_duration, fallback_segments>>
alignVars == <<base_timed_segments, new_text, language_hint, aligned_segments>>
pipeVars == <<results, recognized, lang_index, srt_files, files, warnings, returned,
              srt_content>>
timestampVars == <<seconds_in, timestamp>>
\* the variables outside the subtitle engine proper
lockVars == <<lock_file, inode_count, flock_owner, lock_fd, is_master_process, lock_at,
              lock_caller>>
routeVars == <<processing_status, sse_clients, request_at, request_answer, job_at, job_data,
               job_progress, client_at, client_queue, sent>>
otherVars == <<timestampVars, lockVars, routeVars>>
vars == <<pc, splitVars, normVars, fallbackVars, alignVars, pipeVars, otherVars>>

\* the variables of a function that a specification does not exercise
IdleSplit == text = <<>> /\ max_chars = 0 /\ max_words = 0 /\ segments = <<>>

IdleNorm ==
    /\ av_offset = 0
    /\ yielded = 0
    /\ timed_segments = <<>>
    /\ cleaned_segments = <<>>
    /\ absorbed = <<>>
    /\ idx = 0

IdleFallback == video_duration = 0 /\ audio_duration = 0 /\ fallback_segments = <<>>

IdleAlign ==
    /\ base_timed_segments = <<>>
    /\ new_text = <<>>
    /\ language_hint = ""
    /\ aligned_segments = <<>>

IdleTimestamp == seconds_in = 0 /\ timestamp = <<>>

IdleLock ==
    /\ lock_file = 0
    /\ inode_count = 0
    /\ flock_owner = <<>>
    /\ lock_fd = <<>>
    /\ is_master_process = <<>>
    /\ lock_at = <<>>
    /\ lock_caller = <<>>

IdleRoutes ==
    /\ processing_status = "none"
    /\ sse_clients = <<>>
    /\ request_at = <<>>
    /\ request_answer = <<>>
    /\ job_at = <<>>
    /\ job_data = <<>>
    /\ job_progress = <<>>
    /\ client_at = <<>>
    /\ client_queue = <<>>
    /\ sent = <<>>

IdleOther == IdleTimestamp /\ IdleLock /\ IdleRoutes

\* a dict without keys
EmptyDict == [k \in {} |-> <<>>]

IdlePipe ==
    /\ results = EmptyDict
    /\ recognized = <<>>
    /\ lang_index = 0
    /\ srt_files = EmptyDict
    /\ files = EmptyDict
    /\ warnings = {}
    /\ returned = EmptyDict
    /\ srt_content = <<>>

-----------------------------------------------------------------------------
(* Bounds of the model.                                                    *)

MaxTextLen == 6
MaxRaw == 3
MaxFallbackSentences == 5
MaxBase == 15
MaxNew == 12
MaxRecognized == 2

-----------------------------------------------------------------------------
(* Generic helpers.                                                        *)

Max(a, b) == IF a >= b THEN a ELSE b
Min(a, b) == IF a <= b THEN a ELSE b

RECURSIVE SeqsUpTo(_, _)
SeqsUpTo(S, n) ==
    IF n = 0 THEN {<<>>}
    ELSE LET shorter == SeqsUpTo(S, n - 1)
         IN  shorter \cup {Append(s, x) : s \in {t \in shorter : Len(t) = n - 1}, x \in S}

-----------------------------------------------------------------------------
(* Python str primitives used by the segmenter.                            *)

\* the whitespace the model's texts contain
Whitespace == {" ", "\n", "\t"}

\* the character class [.!?DANDA] of the sentence regex (line 29)
SentencePunct == {".", "!", "?", "danda"}

\* the character class [,;:\n] of the clause regex (line 42)
ClausePunct == {",", ";", ":", "\n"}

\* str.isspace of one character
IsSpace(c) == c \in Whitespace

IsSentencePunct(c) == c \in SentencePunct

\* the least j >= from with s[j] in class, or Len(s) + 1 when there is none
FirstIn(s, from, class) ==
    CHOOSE j \in from..(Len(s) + 1) :
        /\ j = Len(s) + 1 \/ s[j] \in class
        /\ \A k \in from..(j - 1) : s[k] \notin class

\* the least j >= from with s[j] not in class, or Len(s) + 1
FirstNotIn(s, from, class) ==
    CHOOSE j \in from..(Len(s) + 1) :
        /\ j = Len(s) + 1 \/ s[j] \notin class
        /\ \A k \in from..(j - 1) : s[k] \in class

\* s.lstrip()
LStrip(s) == SubSeq(s, FirstNotIn(s, 1, Whitespace), Len(s))

\* s.rstrip()
RStrip(s) ==
    LET last == CHOOSE j \in 0..Len(s) :
                    /\ j = 0 \/ ~IsSpace(s[j])
                    /\ \A k \in (j + 1)..Len(s) : IsSpace(s[k])
    IN  SubSeq(s, 1, last)

\* str.strip()
Strip(s) == RStrip(LStrip(s))

\* str.split() with no argument: the maximal runs of non-whitespace
RECURSIVE WordsFrom(_, _)
WordsFrom(s, i) ==
    LET a == FirstNotIn(s, i, Whitespace)
        b == FirstIn(s, a, Whitespace)
    IN  IF a > Len(s) THEN <<>>
        ELSE <<SubSeq(s, a, b - 1)>> \o WordsFrom(s, b)

Words(s) == WordsFrom(s, 1)

WordCount(s) == Len(Words(s))

\* first index >= i of s that holds no sentence punctuation (Len(s)+1 if none)
PunctRunEnd(s, i) == FirstNotIn(s, i, SentencePunct)

\* re.split(r'[.!?DANDA]+(?:\s|$)', s): a maximal run of sentence
\* punctuation is a separator only when one whitespace character or the end
\* of the string follows it; the separator takes that one whitespace
\* character with it.  SeparatorAt(s, j): such a separator starts at j.
SeparatorAt(s, j) ==
    /\ IsSentencePunct(s[j])
    /\ j = 1 \/ ~IsSentencePunct(s[j - 1])
    /\ LET e == PunctRunEnd(s, j) IN e > Len(s) \/ IsSpace(s[e])

RECURSIVE SentenceSplitFrom(_, _)
SentenceSplitFrom(s, i) ==
    LET j == CHOOSE x \in i..(Len(s) + 1) : 
                 /\ x = Len(s) + 1 \/ SeparatorAt(s, x)
                 /\ \A k \in i..(x - 1) : ~SeparatorAt(s, k)
        e == PunctRunEnd(s, j)
    IN  IF j > Len(s) THEN <<SubSeq(s, i, Len(s))>>
        ELSE IF e > Len(s) THEN <<SubSeq(s, i, j - 1), <<>> >>
        ELSE <<SubSeq(s, i, j - 1)>> \o SentenceSplitFrom(s, e + 1)

SplitSentences(s) == SentenceSplitFrom(s, 1)

\* re.split(r'[,;:\n]', s): every clause punctuation character separates
RECURSIVE PhraseSplitFrom(_, _)
PhraseSplitFrom(s, i) ==
    LET j == FirstIn(s, i, ClausePunct)
    IN  IF j > Len(s) THEN <<SubSeq(s, i, Len(s))>>
        ELSE <<SubSeq(s, i, j - 1)>> \o PhraseSplitFrom(s, j + 1)

SplitPhrases(s) == PhraseSplitFrom(s, 1)

\* a + " " + b if a else b
JoinSpace(a, b) == IF a # <<>> THEN a \o <<" ">> \o b ELSE b

-----------------------------------------------------------------------------
(* split_text_into_segments (srt_service.py lines 18-81).                  *)

\* FitsBounds with the word bound forgotten
FitsCharsOnly(s, mc, mw) == Len(s) <= mc

\* the test of lines 38, 52 and 66: within both bounds
FitsBounds(s, mc, mw) == Len(s) <= mc /\ WordCount(s) <= mw

\* WordLoop that forgets the full buffer instead of appending it (line 70)
RECURSIVE WordLoopDropsFull(_, _, _, _, _, _)
WordLoopDropsFull(words, i, word_segment, segs, mc, mw) ==
    IF i > Len(words) THEN <<word_segment, segs>>
    ELSE LET word == words[i]
             test_word_segment == JoinSpace(word_segment, word)
         IN  IF FitsBounds(test_word_segment, mc, mw)
             THEN WordLoopDropsFull(words, i + 1, test_word_segment, segs, mc, mw)
             ELSE WordLoopDropsFull(words, i + 1, word, segs, mc, mw)

\* lines 63-71: pack the words of an over-long phrase;
\* returns <<word_segment, segments>>
RECURSIVE WordLoop(_, _, _, _, _, _)
WordLoop(words, i, word_segment, segs, mc, mw) ==
    IF i > Len(words) THEN <<word_segment, segs>>
    ELSE LET word == words[i]
             test_word_segment == JoinSpace(word_segment, word)
         IN  IF FitsBounds(test_word_segment, mc, mw)
             THEN WordLoop(words, i + 1, test_word_segment, segs, mc, mw)
             ELSE WordLoop(words, i + 1, word,
                           IF word_segment # <<>> THEN Append(segs, word_segment) ELSE segs,
                           mc, mw)

\* lines 45-76: pack the clauses of an over-long sentence;
\* returns <<current_segment, segments>>
RECURSIVE PhraseLoop(_, _, _, _, _, _)
PhraseLoop(phrases, i, current_segment, segs, mc, mw) ==
    IF i > Len(phrases) THEN <<current_segment, segs>>
    ELSE LET phrase == Strip(phrases[i])
             test_segment == JoinSpace(current_segment, phrase)
         IN  IF phrase = <<>>
             THEN PhraseLoop(phrases, i + 1, current_segment, segs, mc, mw)
             ELSE IF FitsBounds(test_segment, mc, mw)
             THEN PhraseLoop(phrases, i + 1, test_segment, segs, mc, mw)
             ELSE LET flushed == IF current_segment # <<>>
                                 THEN Append(segs, current_segment) ELSE segs
                  IN  IF Len(phrase) > mc \/ WordCount(phrase) > mw
                      THEN LET wl == WordLoop(Words(phrase), 1, <<>>, flushed, mc, mw)
                           IN  PhraseLoop(phrases, i + 1,
                                          IF wl[1] # <<>> THEN wl[1] ELSE current_segment,
                                          wl[2], mc, mw)
                      ELSE PhraseLoop(phrases, i + 1, phrase, flushed, mc, mw)

\* lines 32-79: one sentence after the other
RECURSIVE SentenceLoop(_, _, _, _, _)
SentenceLoop(sentences, i, segs, mc, mw) ==
    IF i > Len(sentences) THEN segs
    ELSE LET sentence == Strip(sentences[i])
         IN  IF sentence = <<>>
             THEN SentenceLoop(sentences, i + 1, segs, mc, mw)
             ELSE IF FitsBounds(sentence, mc, mw)
             THEN SentenceLoop(sentences, i + 1, Append(segs, sentence), mc, mw)
             ELSE LET pl == PhraseLoop(SplitPhrases(sentence), 1, <<>>, segs, mc, mw)
                  IN  SentenceLoop(sentences, i + 1,
                                   IF pl[1] # <<>> THEN Append(pl[2], pl[1]) ELSE pl[2],
                                   mc, mw)

\* line 81: [seg.strip() for seg in segments if seg.strip()]
RECURSIVE StripAll(_)
StripAll(segs) ==
    IF segs = <<>> THEN <<>>
    ELSE IF Strip(Head(segs)) = <<>> THEN StripAll(Tail(segs))
         ELSE <<Strip(Head(segs))>> \o StripAll(Tail(segs))

\* split_text_into_segments without the test of lines 25-26: a text of
\* white space only comes back as one segment
SplitKeepsBlankText(t, mc, mw) ==
    IF t = <<>> THEN <<>>
    ELSE IF Strip(t) = <<>> THEN <<t>>
    ELSE StripAll(SentenceLoop(SplitSentences(Strip(t)), 1, <<>>, mc, mw))

split_text_into_segments(t, mc, mw) ==
    IF t = <<>> THEN <<>>
    ELSE IF Strip(t) = <<>> THEN <<>>
    ELSE StripAll(SentenceLoop(SplitSentences(Strip(t)), 1, <<>>, mc, mw))


-----------------------------------------------------------------------------
(* generate_precise_timed_segments (whisper_functions.py lines 190-293).   *)

min_segment_duration == 800
max_segment_duration == 6000
min_gap == 100

\* lines 226-235: the segment is skipped
Skipped(segment) ==
    \/ segment.end - segment.start < min_segment_duration
    \/ Strip(segment.text) = <<>>
    \/ Len(Strip(segment.text)) < 2

\* lines 233-251: the entry appended for a segment that is not skipped
ShiftedEntry(segment, off) ==
    LET start_time == Max(0, segment.start - off)
        end_time == segment.end - off
    IN  [start |-> start_time,
         end   |-> IF end_time - start_time > max_segment_duration
                   THEN start_time + max_segment_duration ELSE end_time,
         text  |-> Strip(segment.text)]

\* line 254: list.sort(key=start), a stable sort
RECURSIVE InsertByStart(_, _)
InsertByStart(sorted, seg) ==
    IF sorted = <<>> THEN <<seg>>
    ELSE IF sorted[Len(sorted)].start <= seg.start THEN Append(sorted, seg)
         ELSE Append(InsertByStart(SubSeq(sorted, 1, Len(sorted) - 1), seg),
                     sorted[Len(sorted)])

RECURSIVE SortByStartFrom(_, _, _)
SortByStartFrom(list, i, sorted) ==
    IF i > Len(list) THEN sorted
    ELSE SortByStartFrom(list, i + 1, InsertByStart(sorted, list[i]))

SortByStart(list) == SortByStartFrom(list, 1, <<>>)

\* lines 268-271: the segment overlaps the last kept one and would be left
\* under the minimum duration if it started after the gap
MergesIntoPrev(prev_segment, segment) ==
    /\ segment.start <= prev_segment.end
    /\ segment.end - (prev_segment.end + min_gap) < min_segment_duration

\* CleanOne with the overlap test passed but the start left where it was
CleanOneKeepsStart(cleaned, segment) ==
    IF cleaned = <<>> THEN <<segment>>
    ELSE LET prev_segment == cleaned[Len(cleaned)]
         IN  IF segment.start <= prev_segment.end
                /\ segment.end - (prev_segment.end + min_gap) < min_segment_duration
             THEN [cleaned EXCEPT ![Len(cleaned)] =
                      [prev_segment EXCEPT
                          !.end = segment.end,
                          !.text = prev_segment.text \o <<" ">> \o segment.text]]
             ELSE Append(cleaned, segment)

\* CleanOne with the end of the kept segment moved but its text left alone
CleanOneDropsText(cleaned, segment) ==
    IF cleaned = <<>> THEN <<segment>>
    ELSE LET prev_segment == cleaned[Len(cleaned)]
         IN  IF segment.start <= prev_segment.end
             THEN LET new_start == prev_segment.end + min_gap
                  IN  IF segment.end - new_start < min_segment_duration
                      THEN [cleaned EXCEPT ![Len(cleaned)] =
                               [prev_segment EXCEPT !.end = segment.end]]
                      ELSE Append(cleaned, [segment EXCEPT !.start = new_start])
             ELSE Append(cleaned, segment)

\* lines 260-279: one pass of the second loop over cleaned_segments
CleanOne(cleaned, segment) ==
    IF cleaned = <<>> THEN <<segment>>
    ELSE LET prev_segment == cleaned[Len(cleaned)]
         IN  IF segment.start <= prev_segment.end
             THEN LET new_start == prev_segment.end + min_gap
                  IN  IF segment.end - new_start < min_segment_duration
                      THEN [cleaned EXCEPT ![Len(cleaned)] =
                               [prev_segment EXCEPT
                                   !.end = segment.end,
                                   !.text = prev_segment.text \o <<" ">> \o segment.text]]
                      ELSE Append(cleaned, [segment EXCEPT !.start = new_start])
             ELSE Append(cleaned, segment)

RECURSIVE CleanFrom(_, _, _)
CleanFrom(timed, i, cleaned) ==
    IF i > Len(timed) THEN cleaned
    ELSE CleanFrom(timed, i + 1, CleanOne(cleaned, timed[i]))

\* lines 221-287 as a function of the recognizer's segments and the offset
NormalizeSegments(raw, off) ==
    LET kept == SelectSeq(raw, LAMBDA seg : ~Skipped(seg))
        shifted == [k \in 1..Len(kept) |-> ShiftedEntry(kept[k], off)]
    IN  CleanFrom(SortByStart(shifted), 1, <<>>)

-----------------------------------------------------------------------------
(* Specification of the normalizer.  The recognizer is a generator: it     *)
(* yields one segment after the other (any interval, overlapping or nested  *)
(* in any way), may raise at any point, and ends after at most MaxRaw       *)
(* segments.                                                                *)

\* <<start, duration>> of the segments the recognizer may yield
RawIntervals == {<<0, 6000>>, <<1000, 7000>>, <<2000, 1000>>,
                 <<300, 500>>, <<300, 1000>>, <<7000, 900>>,
                 <<200, 800>>, <<6000, 850>>}
RawTexts == {<<"a">>, <<"a", "b">>, <<" ", "c", "d">>}
RawSegments == {[start |-> iv[1], end |-> iv[1] + iv[2], text |-> t] :
                   iv \in RawIntervals, t \in RawTexts}
\* get_audio_video_offset returns min(offset, 0.5), or 0
Offsets == {0, 200, 500}

InitNorm ==
    /\ pc = "norm_filter"
    /\ av_offset \in Offsets
    /\ yielded = 0
    /\ timed_segments = <<>>
    /\ cleaned_segments = <<>>
    /\ absorbed = <<>>
    /\ idx = 0
    /\ IdleSplit /\ IdleFallback /\ IdleAlign /\ IdlePipe /\ IdleOther

\* lines 225-251: one pass of the first loop, for the segment just yielded
RecognizerYield ==
    /\ pc = "norm_filter"
    /\ yielded < MaxRaw
    /\ \E segment \in RawSegments :
          timed_segments' = IF Skipped(segment) THEN timed_segments
                            ELSE Append(timed_segments, ShiftedEntry(segment, av_offset))
    /\ yielded' = yielded + 1
    /\ UNCHANGED <<pc, av_offset, cleaned_segments, absorbed, idx, splitVars, fallbackVars, alignVars, pipeVars, otherVars>>

\* the generator is exhausted: line 254 sorts, the second loop starts
RecognizerEnd ==
    /\ pc = "norm_filter"
    /\ timed_segments' = SortByStart(timed_segments)
    /\ pc' = "norm_clean"
    /\ idx' = 0
    /\ UNCHANGED <<av_offset, yielded, cleaned_segments, absorbed, splitVars, fallbackVars, alignVars, pipeVars, otherVars>>

\* lines 260-279: one pass of the second loop
CleanStep ==
    /\ pc = "norm_clean"
    /\ idx < Len(timed_segments)
    /\ LET segment == timed_segments[idx + 1]
       IN  /\ cleaned_segments' = CleanOne(cleaned_segments, segment)
           /\ absorbed' =
                IF cleaned_segments # <<>>
                   /\ MergesIntoPrev(cleaned_segments[Len(cleaned_segments)], segment)
                THEN [absorbed EXCEPT ![Len(absorbed)] = TRUE]
                ELSE Append(absorbed, FALSE)
    /\ idx' = idx + 1
    /\ UNCHANGED <<pc, av_offset, yielded, timed_segments, splitVars, fallbackVars, alignVars, pipeVars, otherVars>>

\* line 287: return cleaned_segments
ReturnCleaned ==
    /\ pc = "norm_clean"
    /\ idx = Len(timed_segments)
    /\ pc' = "norm_done"
    /\ UNCHANGED <<normVars, splitVars, fallbackVars, alignVars, pipeVars, otherVars>>

\* lines 289-293: model.transcribe or the generator raised; return []
RecognizerRaise ==
    /\ pc = "norm_filter"
    /\ cleaned_segments' = <<>>
    /\ absorbed' = <<>>
    /\ pc' = "norm_failed"
    /\ UNCHANGED <<av_offset, yielded, timed_segments, idx, splitVars, fallbackVars, alignVars, pipeVars, otherVars>>

NextNorm ==
    \/ RecognizerYield
    \/ RecognizerEnd
    \/ CleanStep
    \/ ReturnCleaned
    \/ RecognizerRaise

SpecNorm == InitNorm /\ [][NextNorm]_vars

\* the normalizer has returned the timeline it built
NormReturned == pc = "norm_done"

IsSortedByStart(tl) ==
    \A i \in 1..(Len(tl) - 1) : tl[i].start <= tl[i + 1].start

(* C1: for any raw segments with end > start and any offset in [0, 0.5],   *)
(* the timeline the normalizer returns is sorted non-decreasing by start   *)
(* and every returned segment has end > start.                             *)
C1_SortedPositive ==
    NormReturned =>
        /\ IsSortedByStart(cleaned_segments)
        /\ \A i \in 1..Len(cleaned_segments) :
              cleaned_segments[i].end > cleaned_segments[i].start

(* C2: in the normalizer's output every adjacent pair satisfies            *)
(* start[i+1] >= end[i], also after a later merge has changed the end of   *)
(* an already emitted segment.                                             *)
C2_NoOverlap ==
    pc \in {"norm_clean", "norm_done"} =>
        \A i \in 1..(Len(cleaned_segments) - 1) :
            cleaned_segments[i + 1].start >= cleaned_segments[i].end

\* a returned timeline in which a segment that is followed by another one
\* has had its end changed by a merge
C2_Witness ==
    /\ NormReturned
    /\ \E i \in 1..(Len(cleaned_segments) - 1) : absorbed[i]

(* C14: every segment the normalizer returns lasts at most 6.0 s, and      *)
(* every returned segment that absorbed no merged neighbour lasts at least *)
(* 0.8 s, for any raw segments and any offset in [0, 0.5].                 *)
C14_DurationBounds ==
    NormReturned =>
        \A i \in 1..Len(cleaned_segments) :
            LET duration == cleaned_segments[i].end - cleaned_segments[i].start
            IN  /\ duration <= max_segment_duration
                /\ ~absorbed[i] => duration >= min_segment_duration

\* the second loop is about to merge the segment it looks at into the last
\* kept one
MergePending ==
    /\ pc = "norm_clean"
    /\ idx < Len(timed_segments)
    /\ cleaned_segments # <<>>
    /\ MergesIntoPrev(cleaned_segments[Len(cleaned_segments)], timed_segments[idx + 1])

(* C24: when the normalizer merges an overlapping segment into the         *)
(* previously kept one, the kept segment is extended: its end becomes the  *)
(* end of the merged segment and is never earlier than its end before the  *)
(* merge, its text becomes its text, a space, and the text of the merged   *)
(* segment, and the merged segment does not appear as an entry of its own. *)
C24_MergeExtends ==
    [][MergePending =>
          LET n == Len(cleaned_segments)
              segment == timed_segments[idx + 1]
          IN  /\ Len(cleaned_segments') = n
              /\ \A k \in 1..(n - 1) : cleaned_segments'[k] = cleaned_segments[k]
              /\ cleaned_segments'[n].start = cleaned_segments[n].start
              /\ cleaned_segments'[n].end = segment.end
              /\ cleaned_segments'[n].end >= cleaned_segments[n].end
              /\ cleaned_segments'[n].text =
                     cleaned_segments[n].text \o <<" ">> \o segment.text]_vars

-----------------------------------------------------------------------------
(* Specification of the segmenter: any text over a small alphabet, any      *)
(* pair of bounds out of a small set.                                       *)

SplitAlphabet == {"a", "b", " ", ".", ","}
SplitTexts == SeqsUpTo(SplitAlphabet, MaxTextLen)
SplitBounds == {<<1, 1>>, <<3, 8>>, <<5, 2>>, <<60, 8>>}

InitSplit ==
    /\ pc = "split_call"
    /\ text \in SplitTexts
    /\ \E b \in SplitBounds : max_chars = b[1] /\ max_words = b[2]
    /\ segments = <<>>
    /\ IdleNorm /\ IdleFallback /\ IdleAlign /\ IdlePipe /\ IdleOther

SplitText ==
    /\ pc = "split_call"
    /\ segments' = split_text_into_segments(text, max_chars, max_words)
    /\ pc' = "split_done"
    /\ UNCHANGED <<text, max_chars, max_words, normVars, fallbackVars, alignVars, pipeVars, otherVars>>

NextSplit == SplitText

SpecSplit == InitSplit /\ [][NextSplit]_vars

SplitReturned == pc = "split_done"

(* C10: every segment split_text_into_segments returns is non-empty after  *)
(* trimming and either has length <= max_chars and at most max_words       *)
(* words, or is a single word; on the whole-sentence path, the clause path *)
(* and the word path, a clause joined to a word-path leftover included.    *)
C10_SegmentsBounded ==
    SplitReturned =>
        \A i \in 1..Len(segments) :
            /\ Strip(segments[i]) # <<>>
            /\ \/ Len(segments[i]) <= max_chars /\ Len(Words(segments[i])) <= max_words
               \/ Len(Words(segments[i])) = 1

\* "aa b,a" under 3 characters: the phrase "aa b" is packed word by word,
\* its leftover "b" takes the next clause "a"
C10_Witness ==
    /\ SplitReturned
    /\ text = <<"a", "a", " ", "b", ",", "a">>
    /\ max_chars = 3
    /\ segments = << <<"a", "a">>, <<"b", " ", "a">> >>

\* the words of a list of strings, in order
RECURSIVE WordsOfAll(_)
WordsOfAll(strs) ==
    IF strs = <<>> THEN <<>>
    ELSE WordsOfAll(SubSeq(strs, 1, Len(strs) - 1)) \o Words(strs[Len(strs)])

\* the words of the input between its splitting punctuation: the sentence
\* separators always split, the clause punctuation splits inside a sentence
\* that is over one of the bounds
RECURSIVE WordsBetweenPunctuation(_, _, _)
WordsBetweenPunctuation(sentences, mc, mw) ==
    IF sentences = <<>> THEN <<>>
    ELSE LET sentence == Strip(sentences[Len(sentences)])
             before == WordsBetweenPunctuation(SubSeq(sentences, 1, Len(sentences) - 1),
                                               mc, mw)
         IN  IF Len(sentence) <= mc /\ WordCount(sentence) <= mw
             THEN before \o Words(sentence)
             ELSE before \o WordsOfAll(SplitPhrases(sentence))

(* C11: reading the words of the segments split_text_into_segments returns *)
(* in order gives exactly the words of the input between its splitting     *)
(* punctuation, in input order: none dropped, duplicated or reordered.     *)
C11_WordsPreserved ==
    SplitReturned =>
        WordsOfAll(segments)
            = WordsBetweenPunctuation(SplitSentences(Strip(text)), max_chars, max_words)

\* "ab a b" under 3 characters: packed word by word into "ab" and "a b"
C11_Witness ==
    /\ SplitReturned
    /\ text = <<"a", "b", " ", "a", " ", "b">>
    /\ max_chars = 3
    /\ segments = << <<"a", "b">>, <<"a", " ", "b">> >>
    /\ WordsOfAll(segments) = << <<"a", "b">>, <<"a">>, <<"b">> >>

-----------------------------------------------------------------------------
(* Texts built from sentence shapes, for the functions whose behaviour     *)
(* depends on the number and the sizes of the segments of a text.          *)

Rep(c, k) == [j \in 1..k |-> c]

\* a sentence of the given word lengths, in the given letter
RECURSIVE SentenceOf(_, _)
SentenceOf(shape, letter) ==
    IF shape = <<>> THEN <<>>
    ELSE IF Len(shape) = 1 THEN Rep(letter, shape[1])
    ELSE Rep(letter, shape[1]) \o <<" ">> \o SentenceOf(Tail(shape), letter)

\* the sentences of the given shapes, each but the last closed by ". "
RECURSIVE TextOf(_, _)
TextOf(shapes, letter) ==
    IF shapes = <<>> THEN <<>>
    ELSE IF Len(shapes) = 1 THEN SentenceOf(shapes[1], letter)
    ELSE SentenceOf(shapes[1], letter) \o <<".", " ">> \o TextOf(Tail(shapes), letter)

\* k1 sentences of one shape followed by k2 sentences of another
TwoPartText(k1, shape1, k2, shape2, letter) ==
    TextOf([i \in 1..(k1 + k2) |-> IF i <= k1 THEN shape1 ELSE shape2], letter)

\* the Tamil letters and signs the code names (srt_service.py line 197), by
\* code point; "tamil" stands for any other Tamil character
TamilCodePoints == {"U+0B85", "U+0B86", "U+0BA4", "U+0BA9", "U+0BAE", "U+0BB1", "U+0BB2",
                    "U+0BBE", "U+0BC1", "U+0BCD"}

\* ord(c) > 127
IsNonAscii(c) == c \in {"tamil", "danda"} \cup TamilCodePoints

-----------------------------------------------------------------------------
(* create_smart_fallback_segments (srt_service.py lines 84-172).           *)

\* line 107: any(ord(c) > 127 for c in text[:100])
IsTamilText(t) == \E i \in 1..Min(Len(t), 100) : IsNonAscii(t[i])

\* FallbackDuration with the ceiling applied after the floor
FallbackDurationCeilingLast(segment_text, is_tamil) ==
    LET char_count == Len(segment_text)
        word_count == WordCount(segment_text)
        chars_per_10s == IF is_tamil THEN 60 ELSE 100
        words_per_10s == IF is_tamil THEN 25 ELSE 35
        char_duration == (char_count * 10000) \div chars_per_10s
        word_duration == (word_count * 10000) \div words_per_10s
        estimated_duration == Max(char_duration, word_duration)
        min_duration == Max(1200, word_count * 400)
        max_duration == Min(5000, char_count * 150)
    IN  Min(max_duration, Max(min_duration, estimated_duration))

\* lines 124-138: the duration given to a segment; the rates are per 10 s
\* (6 and 2.5 per second for Tamil, 10 and 3.5 otherwise)
FallbackDuration(segment_text, is_tamil) ==
    LET char_count == Len(segment_text)
        word_count == WordCount(segment_text)
        chars_per_10s == IF is_tamil THEN 60 ELSE 100
        words_per_10s == IF is_tamil THEN 25 ELSE 35
        char_duration == (char_count * 10000) \div chars_per_10s
        word_duration == (word_count * 10000) \div words_per_10s
        estimated_duration == Max(char_duration, word_duration)
        min_duration == Max(1200, word_count * 400)
        max_duration == Min(5000, char_count * 150)
    IN  Max(min_duration, Min(max_duration, estimated_duration))

\* FallbackLoop without the clamp of lines 144-147
RECURSIVE FallbackLoopNoClamp(_, _, _, _, _, _)
FallbackLoopNoClamp(segs, i, current_time, usable_duration, is_tamil, timed) ==
    IF i > Len(segs) THEN timed
    ELSE LET end_time == current_time + FallbackDuration(segs[i], is_tamil)
             appended == Append(timed, [start |-> current_time,
                                        end   |-> end_time,
                                        text  |-> segs[i]])
         IN  IF end_time + 150 >= usable_duration THEN appended
             ELSE FallbackLoopNoClamp(segs, i + 1, end_time + 150,
                                      usable_duration, is_tamil, appended)

\* FallbackLoop without the break of lines 146-147: a clamped segment is
\* appended however little time it keeps
RECURSIVE FallbackLoopKeepsShort(_, _, _, _, _, _)
FallbackLoopKeepsShort(segs, i, current_time, usable_duration, is_tamil, timed) ==
    IF i > Len(segs) THEN timed
    ELSE LET duration == FallbackDuration(segs[i], is_tamil)
             over == current_time + duration > usable_duration
             end_time == IF over THEN usable_duration ELSE current_time + duration
             appended == Append(timed, [start |-> current_time,
                                        end   |-> end_time,
                                        text  |-> segs[i]])
         IN  IF end_time + 150 >= usable_duration THEN appended
             ELSE FallbackLoopKeepsShort(segs, i + 1, end_time + 150,
                                         usable_duration, is_tamil, appended)

\* lines 123-161: the loop over the segments, from segment i on
RECURSIVE FallbackLoop(_, _, _, _, _, _)
FallbackLoop(segs, i, current_time, usable_duration, is_tamil, timed) ==
    IF i > Len(segs) THEN timed
    ELSE LET duration == FallbackDuration(segs[i], is_tamil)
             over == current_time + duration > usable_duration
             end_time == IF over THEN usable_duration ELSE current_time + duration
         IN  IF over /\ end_time <= current_time + 1000 THEN timed
             ELSE LET appended == Append(timed, [start |-> current_time,
                                                 end   |-> end_time,
                                                 text  |-> segs[i]])
                  IN  IF end_time + 150 >= usable_duration THEN appended
                      ELSE FallbackLoop(segs, i + 1, end_time + 150,
                                        usable_duration, is_tamil, appended)

\* lines 90-93: the video's duration, or the audio's when there is none
FallbackTotalDuration(video, audio) == IF video = 0 THEN audio ELSE video

\* create_smart_fallback_segments with the cursor started at 0 instead of
\* the 0.2 s of line 117
FallbackFromZero(audio, video, t) ==
    LET total == FallbackTotalDuration(video, audio)
        segs == split_text_into_segments(t, 60, 8)
    IN  IF segs = <<>> THEN <<>>
        ELSE FallbackLoop(segs, 1, 0, (total * 95) \div 100, IsTamilText(t), <<>>)

\* lines 86-168 (the except of lines 170-172 is a separate action)
create_smart_fallback_segments(audio, video, t) ==
    LET total == FallbackTotalDuration(video, audio)
        segs == split_text_into_segments(t, 60, 8)
    IN  IF segs = <<>> THEN <<>>
        ELSE FallbackLoop(segs, 1, 200, (total * 95) \div 100, IsTamilText(t), <<>>)

-----------------------------------------------------------------------------
(* Specification of the fallback builder: texts of up to                   *)
(* MaxFallbackSentences sentences of two shapes, Latin or Tamil, and a     *)
(* few durations (0 for a video whose duration cannot be read).            *)

\* word lengths of a sentence: one short word; three words; six long words
SentenceShapes == {<<1>>, <<5, 5, 5>>, <<9, 9, 9, 9, 9, 9>>}
Letters == {"a", "tamil"}

FallbackTexts ==
    {TwoPartText(k[1], s1, k[2], s2, letter) :
        k \in {kk \in (0..MaxFallbackSentences) \X (0..MaxFallbackSentences) :
                  kk[1] + kk[2] <= MaxFallbackSentences},
        s1 \in SentenceShapes, s2 \in SentenceShapes, letter \in Letters}

VideoDurations == {0, 1000, 3000, 10000, 20000}
AudioDurations == {0, 8000}

InitFallback ==
    /\ pc = "fallback_call"
    /\ text \in FallbackTexts
    /\ max_chars = 60
    /\ max_words = 8
    /\ segments = <<>>
    /\ video_duration \in VideoDurations
    /\ audio_duration \in AudioDurations
    /\ fallback_segments = <<>>
    /\ IdleNorm /\ IdleAlign /\ IdlePipe /\ IdleOther

\* lines 86-168: the call returns the timeline it built
BuildFallback ==
    /\ pc = "fallback_call"
    /\ segments' = split_text_into_segments(text, max_chars, max_words)
    /\ fallback_segments' =
           create_smart_fallback_segments(audio_duration, video_duration, text)
    /\ pc' = "fallback_done"
    /\ UNCHANGED <<text, max_chars, max_words, video_duration, audio_duration,
                   normVars, alignVars, pipeVars, otherVars>>

\* lines 92 and 170-172: the audio file cannot be read; return []
FallbackRaise ==
    /\ pc = "fallback_call"
    /\ video_duration = 0
    /\ fallback_segments' = <<>>
    /\ pc' = "fallback_failed"
    /\ UNCHANGED <<splitVars, video_duration, audio_duration, normVars, alignVars, pipeVars, otherVars>>

NextFallback == BuildFallback \/ FallbackRaise

SpecFallback == InitFallback /\ [][NextFallback]_vars

FallbackReturned == pc = "fallback_done"

(* C4: for any text and any total duration D >= 0, every segment the       *)
(* fallback builder returns has end <= 0.95 * D.                           *)
C4_FallbackMargin ==
    FallbackReturned =>
        \A i \in 1..Len(fallback_segments) :
            fallback_segments[i].end * 100
                <= 95 * FallbackTotalDuration(video_duration, audio_duration)

\* a timeline of several segments whose last end was clamped to the margin
C4_Witness ==
    /\ FallbackReturned
    /\ Len(fallback_segments) >= 2
    /\ Len(fallback_segments) < Len(segments)
    /\ fallback_segments[Len(fallback_segments)].end * 100
           = 95 * FallbackTotalDuration(video_duration, audio_duration)

(* C16: the duration the fallback builder gives to a segment, computed     *)
(* from the larger of the characters-per-second and words-per-second       *)
(* estimates, lies within [max(1.2, wordCount*0.4),                        *)
(* min(5.0, charCount*0.15)] for every segment text.                       *)
FallbackDurationOf(k) == FallbackDuration(segments[k], IsTamilText(text))
FallbackFloor(k) == Max(1200, WordCount(segments[k]) * 400)
FallbackCeiling(k) == Min(5000, Len(segments[k]) * 150)
UsableDuration == (FallbackTotalDuration(video_duration, audio_duration) * 95) \div 100

\* every returned segment ends its duration after its start, or at the
\* margin when that comes first
FallbackDurationIsUsed ==
    \A k \in 1..Len(fallback_segments) :
        /\ fallback_segments[k].text = segments[k]
        /\ fallback_segments[k].end =
               Min(fallback_segments[k].start + FallbackDurationOf(k), UsableDuration)

C16_EstimateInInterval ==
    FallbackReturned =>
        /\ FallbackDurationIsUsed
        /\ \A k \in 1..Len(segments) :
              /\ FallbackFloor(k) <= FallbackDurationOf(k)
              /\ FallbackDurationOf(k) <= FallbackCeiling(k)

(* C16 as amended: the duration is never under the floor                   *)
(* max(1.2, wordCount*0.4); it lies within [floor, ceiling] whenever the   *)
(* floor does not exceed the ceiling min(5.0, charCount*0.15), and is the  *)
(* floor itself when it does.                                              *)
C16_EstimateClamped ==
    FallbackReturned =>
        /\ FallbackDurationIsUsed
        /\ \A k \in 1..Len(segments) :
              /\ FallbackFloor(k) <= FallbackDurationOf(k)
              /\ FallbackFloor(k) <= FallbackCeiling(k)
                     => FallbackDurationOf(k) <= FallbackCeiling(k)
              /\ FallbackFloor(k) > FallbackCeiling(k)
                     => FallbackDurationOf(k) = FallbackFloor(k)

\* a fallback timeline with a one-character segment (ceiling 0.15 s under
\* the floor 1.2 s) lasting its floor, and a segment cut down to its ceiling
C16_Witness ==
    /\ FallbackReturned
    /\ \E k \in 1..Len(fallback_segments) :
          /\ FallbackFloor(k) > FallbackCeiling(k)
          /\ fallback_segments[k].end - fallback_segments[k].start = FallbackFloor(k)
    /\ \E k \in 1..Len(fallback_segments) :
          /\ FallbackFloor(k) < FallbackCeiling(k)
          /\ fallback_segments[k].end - fallback_segments[k].start = FallbackCeiling(k)

\* the end of returned segment k was clamped to the margin (lines 144-145)
ClampedToMargin(k) ==
    fallback_segments[k].start + FallbackDurationOf(k) > UsableDuration

C25_FallbackLayout ==
    FallbackReturned =>
        /\ fallback_segments # <<>> => fallback_segments[1].start = 200
        /\ \A k \in 2..Len(fallback_segments) :
              fallback_segments[k].start = fallback_segments[k - 1].end + 150
        /\ \A k \in 1..Len(fallback_segments) :
              fallback_segments[k].end > fallback_segments[k].start

\* four segments or more laid out, none of them clamped
C25_Witness ==
    /\ FallbackReturned
    /\ Len(fallback_segments) >= 4
    /\ fallback_segments[1].start = 200
    /\ \A k \in 1..Len(fallback_segments) : ~ClampedToMargin(k)

-----------------------------------------------------------------------------
(* IEEE-754 binary64 arithmetic, as far as lines 258-262 of srt_service.py *)
(* use it: m / n for integers m >= n >= 1, i * x for an integer i >= 1,    *)
(* and int(x).  A positive float is [bits, exp]: 53 bits, most significant *)
(* first and 1, and the binary exponent of the last bit.                   *)

MantissaBits == 53

\* digit k (0 = least significant) of the number x, 0 <= x < 2^30
BitAt(x, k) == (x \div (2 ^ k)) % 2

\* the number of binary digits of x, 0 <= x < 2^30
BitLength(x) == CHOOSE l \in 0..30 : x < 2 ^ l /\ (l = 0 \/ x >= 2 ^ (l - 1))

\* the binary digits of x, most significant first (<<>> for 0)
BitsOf(x) == [k \in 1..BitLength(x) |-> BitAt(x, BitLength(x) - k)]

\* the same in exactly w digits, for x < 2^w
BitsOfWidth(x, w) == [k \in 1..w |-> BitAt(x, w - k)]

\* the number a short sequence of binary digits stands for
RECURSIVE BitsToInt(_)
BitsToInt(bits) ==
    IF bits = <<>> THEN 0
    ELSE 2 * BitsToInt(SubSeq(bits, 1, Len(bits) - 1)) + bits[Len(bits)]

\* bits + 1, one digit longer when all digits are 1
IncrementBits(bits) ==
    IF \A k \in 1..Len(bits) : bits[k] = 1
    THEN <<1>> \o [k \in 1..Len(bits) |-> 0]
    ELSE LET p == CHOOSE q \in 1..Len(bits) :
                      bits[q] = 0 /\ \A k \in (q + 1)..Len(bits) : bits[k] = 1
         IN  [k \in 1..Len(bits) |-> IF k < p THEN bits[k] ELSE IF k = p THEN 1 ELSE 0]

\* round to nearest, ties to even: bits starts with 1 and has more than 53
\* digits or `sticky` says that nonzero digits follow them; exp is the
\* exponent of the last digit of bits
RoundToDouble(bits, sticky, exp) ==
    IF Len(bits) <= MantissaBits
    THEN [bits |-> bits \o [k \in 1..(MantissaBits - Len(bits)) |-> 0],
          exp  |-> exp - (MantissaBits - Len(bits))]
    ELSE LET kept == SubSeq(bits, 1, MantissaBits)
             guard == bits[MantissaBits + 1]
             rest == sticky \/ \E k \in (MantissaBits + 2)..Len(bits) : bits[k] = 1
             up == guard = 1 /\ (rest \/ kept[MantissaBits] = 1)
             rounded == IF up THEN IncrementBits(kept) ELSE kept
             dropped == Len(bits) - MantissaBits
         IN  IF Len(rounded) > MantissaBits
             THEN [bits |-> SubSeq(rounded, 1, MantissaBits), exp |-> exp + dropped + 1]
             ELSE [bits |-> rounded, exp |-> exp + dropped]

\* 2^k mod b, by repeated squaring (b < 2^15)
RECURSIVE Pow2Mod(_, _)
Pow2Mod(k, b) ==
    IF k = 0 THEN 1 % b
    ELSE LET h == Pow2Mod(k \div 2, b)
         IN  (h * h * (IF k % 2 = 1 THEN 2 ELSE 1)) % b

\* what is left of r / b after k binary digits: (r * 2^k) mod b, for r < b
RemainderAfter(r, b, k) == (r * Pow2Mod(k, b)) % b

\* digit k (1 = the first after the point) of the binary fraction of r / b
FractionBit(r, b, k) == (2 * RemainderAfter(r, b, k - 1)) \div b

\* float(a) / float(b) for integers a >= 1, b >= 1 (b < 2^15, a / b < 2^30):
\* the digits of the quotient from its first 1 on, up to one guard digit
\* after the 53rd
FloatDiv(a, b) ==
    LET int_bits == BitsOf(a \div b)
        r == a % b
        lead == IF int_bits # <<>> THEN 0
                ELSE CHOOSE z \in 0..15 :
                         /\ FractionBit(r, b, z + 1) = 1
                         /\ \A k \in 1..z : FractionBit(r, b, k) = 0
        nfrac == lead + MantissaBits + 1 - Len(int_bits)
        frac_bits == [k \in 1..(nfrac - lead) |-> FractionBit(r, b, lead + k)]
    IN  RoundToDouble(int_bits \o frac_bits, RemainderAfter(r, b, nfrac) # 0, -nfrac)

\* 53 digits as four numbers of 14 digits, least significant first
LimbWidth == 14
LimbsOf(bits) ==
    LET padded == [k \in 1..(4 * LimbWidth - Len(bits)) |-> 0] \o bits
    IN  [j \in 1..4 |->
            BitsToInt(SubSeq(padded, (4 - j) * LimbWidth + 1, (5 - j) * LimbWidth))]

\* the digits of bits * i for 1 <= i < 2^16: schoolbook multiplication of
\* the limbs with carry, leading zeros removed
TimesSmall(bits, i) ==
    LET l == LimbsOf(bits)
        base == 2 ^ LimbWidth
        t1 == l[1] * i
        t2 == l[2] * i + t1 \div base
        t3 == l[3] * i + t2 \div base
        t4 == l[4] * i + t3 \div base
        digits == BitsOf(t4 \div base)
                  \o BitsOfWidth(t4 % base, LimbWidth) \o BitsOfWidth(t3 % base, LimbWidth)
                  \o BitsOfWidth(t2 % base, LimbWidth) \o BitsOfWidth(t1 % base, LimbWidth)
        first == CHOOSE q \in 1..Len(digits) :
                     digits[q] = 1 /\ \A k \in 1..(q - 1) : digits[k] = 0
    IN  SubSeq(digits, first, Len(digits))

\* i * x for an integer i >= 1 and a float x
FloatTimesInt(i, x) == RoundToDouble(TimesSmall(x.bits, i), FALSE, x.exp)

\* int(x) for a float 0 <= x < 2^30
FloatToInt(x) ==
    IF x.exp >= 0 THEN BitsToInt(x.bits \o [k \in 1..x.exp |-> 0])
    ELSE IF -x.exp >= Len(x.bits) THEN 0
    ELSE BitsToInt(SubSeq(x.bits, 1, Len(x.bits) + x.exp))

\* x % 1 for a float x >= 0 that is not a whole number: the digits after
\* the point, from the first 1 on (exact, as fmod is)
FloatFraction(x) ==
    IF -x.exp >= Len(x.bits) THEN x
    ELSE LET low == SubSeq(x.bits, Len(x.bits) + x.exp + 1, Len(x.bits))
             first == CHOOSE q \in 1..Len(low) :
                          low[q] = 1 /\ \A k \in 1..(q - 1) : low[k] = 0
         IN  [bits |-> SubSeq(low, first, Len(low)), exp |-> x.exp]

\* lines 261, 262: int(i * segments_per_new)
RunBoundary(i, segments_per_new) ==
    IF i = 0 THEN 0 ELSE FloatToInt(FloatTimesInt(i, segments_per_new))

-----------------------------------------------------------------------------
(* align_text_to_timing (srt_service.py lines 219-312).                    *)

\* lines 227-228
HintMaxChars(hint) == IF hint \in {"ta", "tamil"} THEN 50 ELSE 60
HintMaxWords(hint) == IF hint \in {"ta", "tamil"} THEN 6 ELSE 8

\* AlignOneToOne with every end but the last stretched to the next start
AlignOneToOneGapless(base, new_segments) ==
    [i \in 1..Len(base) |-> [start |-> base[i].start,
                             end   |-> IF i < Len(base) THEN base[i + 1].start
                                       ELSE base[i].end,
                             text  |-> new_segments[i]]]

\* lines 244-252: one new segment per base segment, the base timing kept
AlignOneToOne(base, new_segments) ==
    [i \in 1..Len(base) |-> [start |-> base[i].start,
                             end   |-> base[i].end,
                             text  |-> new_segments[i]]]

\* AlignMerge with every run but the last taking the first base segment of
\* the next run too
AlignMergeSharedBoundary(base, new_segments) ==
    LET segments_per_new == FloatDiv(Len(base), Len(new_segments))
    IN  [k \in 1..Len(new_segments) |->
            LET i == k - 1
                start_idx == RunBoundary(i, segments_per_new)
                end_idx == Min(RunBoundary(i + 1, segments_per_new) + 1, Len(base))
            IN  [start |-> base[start_idx + 1].start,
                 end   |-> base[end_idx].end,
                 text  |-> new_segments[k]]]

\* lines 258-271: each new segment spans a run of base segments; i counts
\* from 0 as in the code, the sequences of the model from 1
AlignMerge(base, new_segments) ==
    LET segments_per_new == FloatDiv(Len(base), Len(new_segments))
    IN  [k \in 1..Len(new_segments) |->
            LET i == k - 1
                start_idx == RunBoundary(i, segments_per_new)
                end_idx == Min(RunBoundary(i + 1, segments_per_new), Len(base))
            IN  [start |-> base[start_idx + 1].start,
                 end   |-> base[end_idx].end,
                 text  |-> new_segments[k]]]

RECURSIVE TotalChars(_)
TotalChars(segs) == IF segs = <<>> THEN 0 ELSE Len(Head(segs)) + TotalChars(Tail(segs))

\* RedistributeDuration with the two clamps in the other order
RedistributeDurationCeilingLast(new_text_seg, total_chars, total_duration, n) ==
    LET char_count == Len(new_text_seg)
        proportional == IF total_chars > 0
                        THEN (total_duration * char_count) \div total_chars
                        ELSE total_duration \div n
        min_duration == Max(1000, WordCount(new_text_seg) * 500)
        max_duration == Min(5000, char_count * 120)
    IN  Min(max_duration, Max(min_duration, proportional))

\* lines 285-294: the duration of a new segment before its end is clipped
RedistributeDuration(new_text_seg, total_chars, total_duration, n) ==
    LET char_count == Len(new_text_seg)
        proportional == IF total_chars > 0
                        THEN (total_duration * char_count) \div total_chars
                        ELSE total_duration \div n
        min_duration == Max(1000, WordCount(new_text_seg) * 500)
        max_duration == Min(5000, char_count * 120)
    IN  Max(min_duration, Min(max_duration, proportional))

\* RedistributeLoop without the clip of line 297
RECURSIVE RedistributeLoopNoClip(_, _, _, _, _, _, _)
RedistributeLoopNoClip(new_segments, k, current_time, total_chars, total_duration, total_end_time, aligned) ==
    IF k > Len(new_segments) THEN aligned
    ELSE LET duration == RedistributeDuration(new_segments[k], total_chars,
                                              total_duration, Len(new_segments))
             end_time == current_time + duration
             appended == Append(aligned, [start |-> current_time,
                                          end   |-> end_time,
                                          text  |-> new_segments[k]])
         IN  IF end_time + 100 >= total_end_time THEN appended
             ELSE RedistributeLoopNoClip(new_segments, k + 1, end_time + 100, total_chars,
                                         total_duration, total_end_time, appended)

\* RedistributeLoop leaving the loop one second before the last base end
RECURSIVE RedistributeLoopEarlyStop(_, _, _, _, _, _, _)
RedistributeLoopEarlyStop(new_segments, k, current_time, total_chars, total_duration, total_end_time, aligned) ==
    IF k > Len(new_segments) THEN aligned
    ELSE LET duration == RedistributeDuration(new_segments[k], total_chars,
                                              total_duration, Len(new_segments))
             end_time == Min(current_time + duration, total_end_time)
             appended == Append(aligned, [start |-> current_time,
                                          end   |-> end_time,
                                          text  |-> new_segments[k]])
         IN  IF end_time + 100 >= total_end_time - 1000 THEN appended
             ELSE RedistributeLoopEarlyStop(new_segments, k + 1, end_time + 100,
                                            total_chars, total_duration,
                                            total_end_time, appended)

\* lines 283-309: the loop over the new segments, from segment k on
RECURSIVE RedistributeLoop(_, _, _, _, _, _, _)
RedistributeLoop(new_segments, k, current_time, total_chars, total_duration, total_end_time, aligned) ==
    IF k > Len(new_segments) THEN aligned
    ELSE LET duration == RedistributeDuration(new_segments[k], total_chars,
                                              total_duration, Len(new_segments))
             start_time == current_time
             end_time == Min(start_time + duration, total_end_time)
             appended == Append(aligned, [start |-> start_time,
                                          end   |-> end_time,
                                          text  |-> new_segments[k]])
         IN  IF end_time + 100 >= total_end_time THEN appended
             ELSE RedistributeLoop(new_segments, k + 1, end_time + 100, total_chars,
                                   total_duration, total_end_time, appended)

\* lines 274-309
AlignRedistribute(base, new_segments) ==
    LET total_start_time == base[1].start
        total_end_time == base[Len(base)].end
    IN  RedistributeLoop(new_segments, 1, total_start_time, TotalChars(new_segments),
                         total_end_time - total_start_time, total_end_time, <<>>)

\* line 230: the segmentation of the new text
NewSegments(t, hint) ==
    split_text_into_segments(t, HintMaxChars(hint), HintMaxWords(hint))

align_text_to_timing(base, t, hint) ==
    IF base = <<>> \/ t = <<>> THEN <<>>
    ELSE LET new_segments == NewSegments(t, hint)
         IN  IF new_segments = <<>> THEN <<>>
             ELSE IF Len(new_segments) = Len(base) THEN AlignOneToOne(base, new_segments)
             ELSE IF Len(new_segments) < Len(base) THEN AlignMerge(base, new_segments)
             ELSE AlignRedistribute(base, new_segments)

-----------------------------------------------------------------------------
(* Specification of the aligner: base timelines of up to MaxBase segments  *)
(* laid out regularly, new texts of up to MaxNew sentences of two shapes,  *)
(* and both families of language hint.                                     *)

\* <<first start, duration, gap>> of a regular base timeline
BasePatterns == {<<0, 1000, 0>>, <<500, 3000, 200>>}

RegularTimeline(m, pat) ==
    [i \in 1..m |-> [start |-> pat[1] + (i - 1) * (pat[2] + pat[3]),
                     end   |-> pat[1] + (i - 1) * (pat[2] + pat[3]) + pat[2],
                     text  |-> <<"x", "x">>]]

BaseTimelines == {RegularTimeline(m, pat) : m \in 1..MaxBase, pat \in BasePatterns}

\* up to MaxNew sentences of one shape, then up to two of another
AlignShapePairs == {<< <<1>>, <<5, 5, 5>> >>,
                    << <<5, 5, 5>>, <<9, 9, 9, 9, 9, 9>> >>,
                    << <<1>>, <<9, 9, 9, 9, 9>> >>}

AlignTexts ==
    {TwoPartText(k[1], sp[1], k[2], sp[2], "a") :
        k \in {kk \in (0..MaxNew) \X (0..2) : kk[1] + kk[2] <= MaxNew},
        sp \in AlignShapePairs}

LanguageHints == {"ta", "en"}

InitAlign ==
    /\ pc = "align_call"
    /\ base_timed_segments \in BaseTimelines
    /\ new_text \in AlignTexts
    /\ language_hint \in LanguageHints
    /\ aligned_segments = <<>>
    /\ IdleSplit /\ IdleNorm /\ IdleFallback /\ IdlePipe /\ IdleOther

\* lines 219-312: the call returns aligned_segments; `segments` keeps the
\* new_segments of line 230
AlignText ==
    /\ pc = "align_call"
    /\ text' = new_text
    /\ max_chars' = HintMaxChars(language_hint)
    /\ max_words' = HintMaxWords(language_hint)
    /\ segments' = NewSegments(new_text, language_hint)
    /\ aligned_segments' =
           align_text_to_timing(base_timed_segments, new_text, language_hint)
    /\ pc' = "align_done"
    /\ UNCHANGED <<base_timed_segments, new_text, language_hint, normVars, fallbackVars, pipeVars, otherVars>>

NextAlign == AlignText

SpecAlign == InitAlign /\ [][NextAlign]_vars

AlignReturned == pc = "align_done"
NewCount == Len(segments)
BaseCount == Len(base_timed_segments)
FirstBaseStart == base_timed_segments[1].start
LastBaseEnd == base_timed_segments[BaseCount].end
OneToOneRegime == AlignReturned /\ NewCount >= 1 /\ NewCount = BaseCount
MergeRegime == AlignReturned /\ NewCount >= 1 /\ NewCount < BaseCount
RedistributeRegime == AlignReturned /\ BaseCount >= 1 /\ NewCount > BaseCount

(* C5: when the new text has exactly as many segments as the base timeline *)
(* (n = m), align_text_to_timing returns m segments, the i-th with the     *)
(* start and end of base segment i and the text of new segment i.          *)
C5_OneToOne ==
    OneToOneRegime =>
        /\ Len(aligned_segments) = BaseCount
        /\ \A i \in 1..BaseCount :
              /\ aligned_segments[i].start = base_timed_segments[i].start
              /\ aligned_segments[i].end = base_timed_segments[i].end
              /\ aligned_segments[i].text = segments[i]

\* four base segments and a text of four segments
C5_Witness == OneToOneRegime /\ BaseCount = 4 /\ Len(aligned_segments) = 4

(* C6: with fewer new segments than base segments (1 <= n < m) the result  *)
(* has n segments whose runs of base indices [floor(i*m/n),                *)
(* floor((i+1)*m/n)), i = 0..n-1, are non-empty and contiguous and cover   *)
(* all m base entries; output i starts at the start of the first base      *)
(* entry of its run and ends at the end of the last.                       *)
RunStart(i, m, n) == (i * m) \div n

C6_MergeRuns ==
    MergeRegime =>
        /\ Len(aligned_segments) = NewCount
        /\ RunStart(0, BaseCount, NewCount) = 0
        /\ RunStart(NewCount, BaseCount, NewCount) = BaseCount
        /\ \A i \in 0..(NewCount - 1) :
              /\ RunStart(i, BaseCount, NewCount) < RunStart(i + 1, BaseCount, NewCount)
              /\ aligned_segments[i + 1].start =
                     base_timed_segments[RunStart(i, BaseCount, NewCount) + 1].start
              /\ aligned_segments[i + 1].end =
                     base_timed_segments[RunStart(i + 1, BaseCount, NewCount)].end

(* C7: in the redistribute regime (n > m) the duration given to a new      *)
(* segment before its end is clipped lies within                           *)
(* [max(1.0, wordCount*0.5), min(5.0, charCount*0.12)].                    *)
DurationOf(k) ==
    RedistributeDuration(segments[k], TotalChars(segments),
                         LastBaseEnd - FirstBaseStart, NewCount)
DurationFloor(k) == Max(1000, WordCount(segments[k]) * 500)
DurationCeiling(k) == Min(5000, Len(segments[k]) * 120)

\* every returned segment ends its duration after its start, or at the last
\* base end when that comes first
DurationIsUsed ==
    \A k \in 1..Len(aligned_segments) :
        aligned_segments[k].end =
            Min(aligned_segments[k].start + DurationOf(k), LastBaseEnd)

C7_DurationInInterval ==
    RedistributeRegime =>
        /\ DurationIsUsed
        /\ \A k \in 1..NewCount :
              DurationFloor(k) <= DurationOf(k) /\ DurationOf(k) <= DurationCeiling(k)

(* C7 as amended: the duration is never under the floor                    *)
(* max(1.0, wordCount*0.5); it lies within [floor, ceiling] whenever the   *)
(* floor does not exceed the ceiling min(5.0, charCount*0.12), and is the  *)
(* floor itself when it does.                                              *)
C7_DurationClamped ==
    RedistributeRegime =>
        /\ DurationIsUsed
        /\ \A k \in 1..NewCount :
              /\ DurationFloor(k) <= DurationOf(k)
              /\ DurationFloor(k) <= DurationCeiling(k)
                     => DurationOf(k) <= DurationCeiling(k)
              /\ DurationFloor(k) > DurationCeiling(k)
                     => DurationOf(k) = DurationFloor(k)

\* a redistribution that returned a one-character segment (ceiling 0.12 s
\* under the floor 1.0 s) with the floor as its duration, and a segment
\* whose duration was cut down to its ceiling
C7_Witness ==
    /\ RedistributeRegime
    /\ \E k \in 1..Len(aligned_segments) :
          /\ DurationFloor(k) > DurationCeiling(k)
          /\ aligned_segments[k].end - aligned_segments[k].start = DurationFloor(k)
    /\ \E k \in 1..Len(aligned_segments) :
          /\ DurationFloor(k) < DurationCeiling(k)
          /\ aligned_segments[k].end - aligned_segments[k].start = DurationCeiling(k)

(* C8: in the redistribute regime the first output segment starts at the   *)
(* first base start, every later one starts exactly 0.1 s after the end of *)
(* the one before, and no output end exceeds the last base end.            *)
C8_SequentialLayout ==
    RedistributeRegime =>
        /\ Len(aligned_segments) >= 1
        /\ aligned_segments[1].start = FirstBaseStart
        /\ \A i \in 2..Len(aligned_segments) :
              aligned_segments[i].start = aligned_segments[i - 1].end + 100
        /\ \A i \in 1..Len(aligned_segments) : aligned_segments[i].end <= LastBaseEnd

\* three or more segments laid out, the last one clipped at the last base end
C8_Witness ==
    /\ RedistributeRegime
    /\ Len(aligned_segments) >= 3
    /\ aligned_segments[Len(aligned_segments)].end = LastBaseEnd
    /\ DurationOf(Len(aligned_segments)) >
           LastBaseEnd - aligned_segments[Len(aligned_segments)].start

(* C9: the texts of the returned segments are, in order, a prefix of the   *)
(* segmentation of the new text; with n <= m nothing is dropped, with      *)
(* n > m segments are dropped only from the tail and only once the cursor  *)
(* (previous end + 0.1) has reached the last base end.                     *)
C9_PrefixOfSegmentation ==
    AlignReturned /\ BaseCount >= 1 =>
        /\ Len(aligned_segments) <= NewCount
        /\ \A i \in 1..Len(aligned_segments) : aligned_segments[i].text = segments[i]
        /\ NewCount <= BaseCount => Len(aligned_segments) = NewCount
        /\ (NewCount > BaseCount /\ Len(aligned_segments) < NewCount) =>
               /\ Len(aligned_segments) >= 1
               /\ aligned_segments[Len(aligned_segments)].end + 100 >= LastBaseEnd

\* a redistribution that dropped segments after having emitted at least two
C9_Witness ==
    /\ RedistributeRegime
    /\ Len(aligned_segments) >= 2
    /\ Len(aligned_segments) < NewCount

SegmentLength(seg) == seg.end - seg.start

(* C15: given a base timeline all of whose segments last between 0.8 s and *)
(* 6.0 s, every segment align_text_to_timing returns, in each of the three *)
(* regimes, also lasts between 0.8 s and 6.0 s.                            *)
C15_AlignedDurationBounds ==
    (/\ AlignReturned
     /\ \A k \in 1..BaseCount :
            /\ SegmentLength(base_timed_segments[k]) >= min_segment_duration
            /\ SegmentLength(base_timed_segments[k]) <= max_segment_duration)
    => \A i \in 1..Len(aligned_segments) :
           /\ SegmentLength(aligned_segments[i]) >= min_segment_duration
           /\ SegmentLength(aligned_segments[i]) <= max_segment_duration

\* sorted by start, end > start in every entry, no entry starting before
\* the end of the one before it
WellFormedTimeline(tl) ==
    /\ \A i \in 1..(Len(tl) - 1) : tl[i].start <= tl[i + 1].start
    /\ \A i \in 1..Len(tl) : tl[i].end > tl[i].start
    /\ \A i \in 1..(Len(tl) - 1) : tl[i + 1].start >= tl[i].end

(* C26: given a non-empty base timeline that is sorted by start, has       *)
(* end > start in every entry and start[i+1] >= end[i] for adjacent        *)
(* entries, the timeline align_text_to_timing returns, in any of the three *)
(* regimes, is also sorted by start, has end > start in every entry and    *)
(* start[i+1] >= end[i] for adjacent entries.                              *)
C26_AlignedWellFormed ==
    (AlignReturned /\ BaseCount >= 1 /\ WellFormedTimeline(base_timed_segments))
        => WellFormedTimeline(aligned_segments)

\* three runs or more of a base timeline with gaps, merged
C26_Witness ==
    /\ MergeRegime
    /\ WellFormedTimeline(base_timed_segments)
    /\ Len(aligned_segments) >= 3
    /\ base_timed_segments[2].start > base_timed_segments[1].end
    /\ \E k \in 1..Len(aligned_segments) :
          SegmentLength(aligned_segments[k]) > SegmentLength(base_timed_segments[1])

-----------------------------------------------------------------------------
(* Specification of the three functions on empty input.  One call of       *)
(* split_text_into_segments, of align_text_to_timing or of the normalizer  *)
(* is made on a text that is empty, made of white space only or ordinary,  *)
(* a base timeline that is empty or not, and a recognizer that yields no   *)
(* segment or one.                                                         *)

MaxBlankLen == 3

BlankTexts == SeqsUpTo({" ", "\t", "\n"}, MaxBlankLen)
EmptyCallTexts == BlankTexts \cup {<<"a", ".">>, <<" ", "a", " ", "b", " ">>, <<".">>}
EmptyCallBases == {<<>>} \cup {RegularTimeline(m, pat) : m \in 1..2, pat \in BasePatterns}
EmptyCallRecognized == {<<>>} \cup {<<seg>> : seg \in RawSegments}

InitEmptyCall ==
    /\ pc = "empty_call"
    /\ text \in EmptyCallTexts
    /\ \E b \in SplitBounds : max_chars = b[1] /\ max_words = b[2]
    /\ segments = <<>>
    /\ base_timed_segments \in EmptyCallBases
    /\ new_text = text
    /\ language_hint \in LanguageHints
    /\ aligned_segments = <<>>
    /\ av_offset \in Offsets
    /\ yielded = 0
    /\ timed_segments = <<>>
    /\ cleaned_segments = <<>>
    /\ absorbed = <<>>
    /\ idx = 0
    /\ IdleFallback /\ IdlePipe /\ IdleOther

\* srt_service.py lines 18-81
EmptyCallSplit ==
    /\ pc = "empty_call"
    /\ segments' = split_text_into_segments(text, max_chars, max_words)
    /\ pc' = "empty_split_done"
    /\ UNCHANGED <<text, max_chars, max_words, normVars, fallbackVars, alignVars, pipeVars, otherVars>>

\* srt_service.py lines 219-312
EmptyCallAlign ==
    /\ pc = "empty_call"
    /\ aligned_segments' =
           align_text_to_timing(base_timed_segments, new_text, language_hint)
    /\ pc' = "empty_align_done"
    /\ UNCHANGED <<base_timed_segments, new_text, language_hint, splitVars, normVars, fallbackVars, pipeVars, otherVars>>

\* whisper_functions.py lines 221-287, on the whole list the recognizer yields
EmptyCallNormalize ==
    /\ pc = "empty_call"
    /\ \E raw \in EmptyCallRecognized :
           /\ recognized' = raw
           /\ yielded' = Len(raw)
           /\ cleaned_segments' = NormalizeSegments(raw, av_offset)
    /\ pc' = "empty_norm_done"
    /\ UNCHANGED <<av_offset, timed_segments, absorbed, idx, splitVars, fallbackVars, alignVars,
                   results, lang_index, srt_files, files, warnings, returned, srt_content,
                   otherVars>>

NextEmptyCall == EmptyCallSplit \/ EmptyCallAlign \/ EmptyCallNormalize

SpecEmptyCall == InitEmptyCall /\ [][NextEmptyCall]_vars

IsBlankText(t) == \A i \in 1..Len(t) : t[i] \in Whitespace

(* C12: empty input gives empty output: split_text_into_segments returns   *)
(* the empty list for a text that is empty or white space only,            *)
(* align_text_to_timing returns the empty list when the new text is empty  *)
(* or white space only or when the base timeline is empty, and the         *)
(* normalizer returns the empty list when the recognizer yields nothing.   *)
(* A call that raised would leave its position at "empty_call".            *)
C12_EmptyInEmptyOut ==
    /\ pc = "empty_split_done" /\ IsBlankText(text) => segments = <<>>
    /\ pc = "empty_align_done" /\ (IsBlankText(new_text) \/ base_timed_segments = <<>>)
          => aligned_segments = <<>>
    /\ pc = "empty_norm_done" /\ recognized = <<>> => cleaned_segments = <<>>

C12_Witness ==
    /\ pc = "empty_align_done"
    /\ new_text = <<" ", "\n">>
    /\ Len(base_timed_segments) = 2
    /\ aligned_segments = <<>>

-----------------------------------------------------------------------------
(* format_timestamp (whisper_functions.py lines 25-32).  A timestamp is    *)
(* the string the code renders, a sequence of characters.                  *)

DigitChars == <<"0", "1", "2", "3", "4", "5", "6", "7", "8", "9">>

\* str(n) for n >= 0
RECURSIVE Digits(_)
Digits(n) ==
    IF n < 10 THEN <<DigitChars[n + 1]>>
    ELSE Digits(n \div 10) \o <<DigitChars[(n % 10) + 1]>>

\* f"{n:0wd}": at least w digits, zeros in front
ZeroPad(n, w) == Rep("0", w - Len(Digits(n))) \o Digits(n)

\* line 31: int((seconds % 1) * 1000), computed in binary64 on the float
\* nearest to the time
MillisecondsField(s) ==
    IF s % 1000 = 0 THEN 0
    ELSE FloatToInt(FloatTimesInt(1000, FloatFraction(FloatDiv(s, 1000))))

format_timestamp(seconds) ==
    LET s == Max(0, seconds)
        hours == s \div 3600000
        minutes == (s % 3600000) \div 60000
        secs == (s % 60000) \div 1000
        milliseconds == MillisecondsField(s)
    IN  ZeroPad(hours, 2) \o <<":">> \o ZeroPad(minutes, 2) \o <<":">>
            \o ZeroPad(secs, 2) \o <<",">> \o ZeroPad(milliseconds, 3)

\* int(d) for a string of decimal digits
RECURSIVE DecimalValue(_)
DecimalValue(d) ==
    IF d = <<>> THEN 0
    ELSE 10 * DecimalValue(SubSeq(d, 1, Len(d) - 1))
         + (CHOOSE v \in 0..9 : DigitChars[v + 1] = d[Len(d)])

\* lines 429-431: the time a rendered timestamp stands for.  `hours` is
\* the number of leading characters read as hours: all of them for the
\* timestamp itself, two for a match of the pattern \d{2}:\d{2}:\d{2},\d{3}
TimestampValue(ts, hours) ==
    LET n == Len(ts)
    IN  DecimalValue(SubSeq(ts, n - 11 - hours + 2, n - 10)) * 3600000
        + DecimalValue(SubSeq(ts, n - 8, n - 7)) * 60000
        + DecimalValue(SubSeq(ts, n - 5, n - 4)) * 1000
        + DecimalValue(SubSeq(ts, n - 2, n))

-----------------------------------------------------------------------------
(* Specification of format_timestamp: one call on a time that is a whole   *)
(* number of milliseconds, negative, small, or at the turn of a minute, an *)
(* hour, a day or the hundredth hour.                                      *)

MaxTimeMs == 1100

TimestampInputs ==
    (-3..MaxTimeMs) \cup {2300, 6100, 59999, 60000, 3599999, 3600000, 86399999, 360000000}

InitTimestamp ==
    /\ pc = "timestamp_call"
    /\ seconds_in \in TimestampInputs
    /\ timestamp = <<>>
    /\ IdleSplit /\ IdleNorm /\ IdleFallback /\ IdleAlign /\ IdlePipe /\ IdleLock
    /\ IdleRoutes

\* lines 25-32: the call returns the rendered string
FormatTimestamp ==
    /\ pc = "timestamp_call"
    /\ timestamp' = format_timestamp(seconds_in)
    /\ pc' = "timestamp_done"
    /\ UNCHANGED <<seconds_in, splitVars, normVars, fallbackVars, alignVars, pipeVars,
                   lockVars, routeVars>>

NextTimestamp == FormatTimestamp

SpecTimestamp == InitTimestamp /\ [][NextTimestamp]_vars

TimestampReturned == pc = "timestamp_done"

\* the fields of the rendered string, read from its end
HoursField == DecimalValue(SubSeq(timestamp, 1, Len(timestamp) - 10))
MinutesField == DecimalValue(SubSeq(timestamp, Len(timestamp) - 8, Len(timestamp) - 7))
SecondsField == DecimalValue(SubSeq(timestamp, Len(timestamp) - 5, Len(timestamp) - 4))
MillisField == DecimalValue(SubSeq(timestamp, Len(timestamp) - 2, Len(timestamp)))

\* HH:MM:SS,mmm with two or more digits of hours
WellFormedTimestamp ==
    LET n == Len(timestamp)
    IN  /\ n >= 12
        /\ timestamp[n - 3] = ","
        /\ timestamp[n - 6] = ":"
        /\ timestamp[n - 9] = ":"
        /\ \A i \in (1..n) \ {n - 3, n - 6, n - 9} :
               \E v \in 1..10 : DigitChars[v] = timestamp[i]

(* C22: for every time t that is a whole number of milliseconds,           *)
(* format_timestamp renders max(0, t) as HH:MM:SS,mmm, zero-padded, with   *)
(* minutes < 60, seconds < 60, milliseconds < 1000 and                     *)
(* hours*3600000 + minutes*60000 + seconds*1000 + milliseconds equal to    *)
(* max(0, t); every negative input renders as 00:00:00,000.                *)
C22_ExactDecomposition ==
    TimestampReturned =>
        /\ WellFormedTimestamp
        /\ MinutesField < 60
        /\ SecondsField < 60
        /\ MillisField < 1000
        /\ HoursField * 3600000 + MinutesField * 60000 + SecondsField * 1000 + MillisField
               = Max(0, seconds_in)
        /\ seconds_in < 0 =>
               timestamp = <<"0", "0", ":", "0", "0", ":", "0", "0", ",", "0", "0", "0">>

-----------------------------------------------------------------------------
(* create_srt_content (srt_service.py lines 174-217).  The content of a    *)
(* subtitle file is the sequence of its blocks; a block is a record of the *)
(* lines the code writes: index, the two timestamps, text.                 *)

AsciiUpper == <<"A", "B", "C", "D", "E", "F", "G", "H", "I", "J", "K", "L", "M",
                "N", "O", "P", "Q", "R", "S", "T", "U", "V", "W", "X", "Y", "Z">>
AsciiLower == <<"a", "b", "c", "d", "e", "f", "g", "h", "i", "j", "k", "l", "m",
                "n", "o", "p", "q", "r", "s", "t", "u", "v", "w", "x", "y", "z">>

\* str.lower(), on the characters of the model
Lower(w) ==
    [k \in 1..Len(w) |->
        IF \E j \in 1..26 : AsciiUpper[j] = w[k]
        THEN AsciiLower[CHOOSE j \in 1..26 : AsciiUpper[j] = w[k]]
        ELSE w[k]]

\* line 197
break_words ==
    {<<"a", "n", "d">>, <<"o", "r">>, <<"b", "u", "t">>, <<"s", "o">>,
     <<"U+0BAE", "U+0BB1", "U+0BCD", "U+0BB1", "U+0BC1", "U+0BAE", "U+0BCD">>,
     <<"U+0B85", "U+0BB2", "U+0BCD", "U+0BB2", "U+0BA4", "U+0BC1">>,
     <<"U+0B86", "U+0BA9", "U+0BBE", "U+0BB2", "U+0BCD">>}

\* ' '.join(words)
RECURSIVE JoinWords(_)
JoinWords(words) ==
    IF words = <<>> THEN <<>>
    ELSE IF Len(words) = 1 THEN words[1]
    ELSE JoinWords(SubSeq(words, 1, Len(words) - 1)) \o <<" ">> \o words[Len(words)]

\* lines 195-202: the word index the text is broken at; i runs over
\* range(max(1, mid_point-2), min(len(words)-1, mid_point+3)), and words[i-1],
\* words[i] of the code are words[i], words[i+1] here
BreakPoint(words) ==
    LET mid_point == Len(words) \div 2
        window == Max(1, mid_point - 2)..(Min(Len(words) - 1, mid_point + 3) - 1)
        free == {i \in window : /\ Lower(words[i]) \notin break_words
                                /\ Lower(words[i + 1]) \notin break_words}
    IN  IF free = {} THEN mid_point
        ELSE CHOOSE i \in free : \A j \in free : i <= j

\* WrapText without the test of line 208: a long text is always broken
WrapTextAnyLength(t) ==
    IF Len(t) > 50 /\ WordCount(t) > 6
    THEN LET words == Words(t)
             mid_point == BreakPoint(words)
         IN  JoinWords(SubSeq(words, 1, mid_point)) \o <<"\n">>
                 \o JoinWords(SubSeq(words, mid_point + 1, Len(words)))
    ELSE t

\* lines 190-209: the text of a block, on two lines when it is long
WrapText(t) ==
    IF Len(t) > 50 /\ WordCount(t) > 6
    THEN LET words == Words(t)
             mid_point == BreakPoint(words)
             line1 == JoinWords(SubSeq(words, 1, mid_point))
             line2 == JoinWords(SubSeq(words, mid_point + 1, Len(words)))
         IN  IF Len(line1) <= 35 /\ Len(line2) <= 35
             THEN line1 \o <<"\n">> \o line2
             ELSE t
    ELSE t

\* SrtBlocksFrom with the index advanced for a skipped segment too
RECURSIVE SrtBlocksCountSkipped(_, _, _, _)
SrtBlocksCountSkipped(timed, i, subtitle_index, content) ==
    IF i > Len(timed) THEN content
    ELSE LET segment == timed[i]
             t == Strip(segment.text)
         IN  IF t = <<>>
             THEN SrtBlocksCountSkipped(timed, i + 1, subtitle_index + 1, content)
             ELSE SrtBlocksCountSkipped(timed, i + 1, subtitle_index + 1,
                      Append(content,
                             [index      |-> subtitle_index,
                              start_time |-> format_timestamp(segment.start),
                              end_time   |-> format_timestamp(segment.end),
                              text       |-> WrapText(t)]))

\* lines 182-215: the loop over the segments, from segment i on
RECURSIVE SrtBlocksFrom(_, _, _, _)
SrtBlocksFrom(timed, i, subtitle_index, content) ==
    IF i > Len(timed) THEN content
    ELSE LET segment == timed[i]
             t == Strip(segment.text)
         IN  IF t = <<>>
             THEN SrtBlocksFrom(timed, i + 1, subtitle_index, content)
             ELSE SrtBlocksFrom(timed, i + 1, subtitle_index + 1,
                      Append(content,
                             [index      |-> subtitle_index,
                              start_time |-> format_timestamp(segment.start),
                              end_time   |-> format_timestamp(segment.end),
                              text       |-> WrapText(t)]))

create_srt_content(timed) == SrtBlocksFrom(timed, 1, 1, <<>>)

-----------------------------------------------------------------------------
(* Specification of the renderer: a timeline of up to MaxCues segments     *)
(* whose texts are empty, blank, short, of several lines, or, for at most  *)
(* one segment, a long text of seven to ten words with connective words    *)
(* at up to two neighbouring places.                                       *)

MaxCues == 3

\* texts under 50 characters: empty, blank, one line, three lines
ShortCueTexts == {<<>>, <<" ">>, <<"a", "b">>, <<"a", "\n", "b", "\n", "c">>}

\* word lengths of the long texts
LongCueShapes == {<<16, 5, 5, 5, 5, 5, 5>>,
                  <<9, 9, 9, 9, 9, 9, 9>>,
                  <<6, 6, 6, 6, 6, 6, 6, 6>>,
                  <<12, 12, 3, 3, 3, 3, 3, 3, 3>>,
                  <<5, 5, 5, 5, 5, 5, 5, 5, 5, 5>>}

Connectives == {<<"a", "n", "d">>, <<"B", "u", "t">>,
                <<"U+0B85", "U+0BB2", "U+0BCD", "U+0BB2", "U+0BA4", "U+0BC1">>}

\* no place, one place, or two neighbouring places
ConnectivePlaces(n) ==
    {{}} \cup {{i} : i \in 1..n} \cup {{i, i + 1} : i \in 1..(n - 1)}

\* the words of the shape, a connective at each of the places, joined by
\* single spaces
LongCueText(shape, places, connective) ==
    JoinWords([i \in 1..Len(shape) |->
                  IF i \in places THEN connective ELSE Rep("x", shape[i])])

LongCueTexts ==
    UNION {{LongCueText(shape, places, connective) :
               places \in ConnectivePlaces(Len(shape)), connective \in Connectives} :
           shape \in LongCueShapes}

\* segment i of a timeline: 1.5 s every 2 s
CueSegment(i, t) ==
    [start |-> 500 + (i - 1) * 2000, end |-> 2000 + (i - 1) * 2000, text |-> t]

\* any short texts, or one long text among empty and one-line texts
CueTimelines ==
    {[i \in 1..Len(q) |-> CueSegment(i, q[i])] : q \in SeqsUpTo(ShortCueTexts, MaxCues)}
    \cup {[i \in 1..Len(q) |-> CueSegment(i, IF i = at THEN long ELSE q[i])] :
              q \in SeqsUpTo({<<>>, <<"a", "b">>}, MaxCues),
              at \in 1..MaxCues,
              long \in LongCueTexts}

InitSrt ==
    /\ pc = "srt_call"
    /\ timed_segments \in CueTimelines
    /\ av_offset = 0
    /\ yielded = 0
    /\ cleaned_segments = <<>>
    /\ absorbed = <<>>
    /\ idx = 0
    /\ IdleSplit /\ IdleFallback /\ IdleAlign /\ IdlePipe /\ IdleOther

\* lines 174-217: the call returns srt_content
RenderSrt ==
    /\ pc = "srt_call"
    /\ srt_content' = create_srt_content(timed_segments)
    /\ pc' = "srt_done"
    /\ UNCHANGED <<splitVars, normVars, fallbackVars, alignVars,
                   results, recognized, lang_index, srt_files, files, warnings, returned,
                   otherVars>>

NextSrt == RenderSrt

SpecSrt == InitSrt /\ [][NextSrt]_vars

SrtReturned == pc = "srt_done"

\* the segments whose text is not empty after trimming, in timeline order
CueSegments == SelectSeq(timed_segments, LAMBDA seg : Strip(seg.text) # <<>>)

(* C18: create_srt_content numbers its cues 1, 2, ..., k in timeline       *)
(* order, k being the number of segments whose text is not empty after     *)
(* trimming; a skipped segment gives no block and takes no index.          *)
C18_ConsecutiveIndices ==
    SrtReturned =>
        /\ Len(srt_content) = Len(CueSegments)
        /\ \A k \in 1..Len(srt_content) :
              /\ srt_content[k].index = k
              /\ srt_content[k].start_time = format_timestamp(CueSegments[k].start)
              /\ srt_content[k].end_time = format_timestamp(CueSegments[k].end)

\* a blank segment between two segments with text: two cues, 1 and 2
C18_Witness ==
    /\ SrtReturned
    /\ Len(timed_segments) = 3
    /\ Strip(timed_segments[1].text) # <<>>
    /\ Strip(timed_segments[2].text) = <<>>
    /\ Strip(timed_segments[3].text) # <<>>
    /\ Len(srt_content) = 2
    /\ srt_content[2].index = 2

\* the number of lines of a text
LineCount(t) == 1 + Cardinality({i \in 1..Len(t) : t[i] = "\n"})

(* C19: every cue block create_srt_content produces has at most two text   *)
(* lines, whatever the texts of the segments.                              *)
C19_AtMostTwoLines ==
    SrtReturned =>
        \A k \in 1..Len(srt_content) : LineCount(srt_content[k].text) <= 2

\* cue k was wrapped: its segment's text is one line, the cue's text is two
Wrapped(k) ==
    /\ LineCount(Strip(CueSegments[k].text)) = 1
    /\ LineCount(srt_content[k].text) = 2

\* the number of words on the first line of cue k
BrokenAt(k) ==
    WordCount(SubSeq(srt_content[k].text, 1,
                     FirstIn(srt_content[k].text, 1, {"\n"}) - 1))

IsConnective(word) == Lower(word) \in break_words

\* the boundaries the search looks at: boundary i lies between word i and
\* word i + 1
SearchWindow(words) ==
    LET mid == Len(words) \div 2
    IN  Max(1, mid - 2)..(Min(Len(words) - 1, mid + 3) - 1)

FreeBoundaries(words) ==
    {i \in SearchWindow(words) : ~IsConnective(words[i]) /\ ~IsConnective(words[i + 1])}

Distance(i, j) == IF i >= j THEN i - j ELSE j - i

(* C20: when create_srt_content wraps a text, the break falls at the word  *)
(* boundary nearest to the midpoint (word index len(words) // 2) among the *)
(* boundaries of the search window that are not adjacent to a connective   *)
(* word; with no connective word in the window the break is at the         *)
(* midpoint itself.                                                        *)
C20_BreakNearestMidpoint ==
    SrtReturned =>
        \A k \in 1..Len(srt_content) :
            Wrapped(k) =>
                LET words == Words(CueSegments[k].text)
                    mid == Len(words) \div 2
                    free == FreeBoundaries(words)
                IN  /\ free # {} =>
                           /\ BrokenAt(k) \in free
                           /\ \A j \in free :
                                  Distance(BrokenAt(k), mid) <= Distance(j, mid)
                    /\ (\A i \in SearchWindow(words) :
                            ~IsConnective(words[i]) /\ ~IsConnective(words[i + 1]))
                           => BrokenAt(k) = mid

-----------------------------------------------------------------------------
(* generate_all_srt_files_improved (srt_service.py lines 314-442).         *)

\* get_audio_video_offset (whisper_functions.py lines 43-57)
get_audio_video_offset(video, audio) ==
    IF video # 0
    THEN Min(IF video >= audio THEN video - audio ELSE audio - video, 500)
    ELSE 0

\* line 383
FailedMessage ==
    <<"T", "a", "n", "g", "l", "i", "s", "h", "-", "e", "n", "g", "l", "i", "s", "h", " ",
      "t", "r", "a", "n", "s", "c", "r", "i", "p", "t", "i", "o", "n", " ",
      "f", "a", "i", "l", "e", "d">>

\* the four blocks of lines 346-416, in the order they run: the key of
\* results and srt_files, the language hint, the name of the file
LanguageBlocks ==
    << [key  |-> "tanglish_tamil", hint |-> "ta",
        file |-> "tanglish_tamil_subtitles.srt"],
       [key  |-> "english", hint |-> "en",
        file |-> "english_subtitles.srt"],
       [key  |-> "tanglish_english", hint |-> "tanglish_english",
        file |-> "tanglish_english_subtitles.srt"],
       [key  |-> "tamil", hint |-> "ta",
        file |-> "tamil_subtitles.srt"] >>

\* lines 346, 365, 383, 401: the block of language k runs its alignment
BlockRuns(k) ==
    /\ results[LanguageBlocks[k].key] # <<>>
    /\ k = 3 => results[LanguageBlocks[k].key] # FailedMessage

\* d with d[key] = value
DictWith(d, key, value) ==
    [k \in DOMAIN d \cup {key} |-> IF k = key THEN value ELSE d[k]]

\* lines 425-433: the last timestamp of a file is more than a second after
\* the end of the video
ExtendsBeyondVideo(content) ==
    /\ content # <<>>
    /\ video_duration # 0
    /\ TimestampValue(content[Len(content)].end_time, 2) > video_duration + 1000

-----------------------------------------------------------------------------
(* Specification of the pipeline: a few media (0: the duration cannot be   *)
(* read), the segments the recognizer returns for the audio (none of them  *)
(* ends after the audio), and a few texts per language.                    *)

\* <<video duration, audio duration>>
MediaDurations == {<<0, 0>>, <<0, 8000>>, <<7000, 8000>>, <<10000, 10000>>, <<8000, 7300>>}

\* <<start, duration>> of the segments the recognizer may return
RecognizedIntervals == {<<0, 6000>>, <<5000, 3000>>, <<7000, 900>>, <<300, 500>>}

\* the text the recognizer gives for a segment: one text per interval, one
\* of them with white space in front
RecognizedText(iv) ==
    IF iv = <<0, 6000>> THEN <<"a", "b">>
    ELSE IF iv = <<5000, 3000>> THEN <<" ", "c", "d">>
    ELSE IF iv = <<7000, 900>> THEN <<"e", "f">>
    ELSE <<"g", "h">>

RecognizedLists(audio) ==
    SeqsUpTo({[start |-> iv[1], end |-> iv[1] + iv[2], text |-> RecognizedText(iv)] :
                  iv \in {x \in RecognizedIntervals : x[1] + x[2] <= audio}},
             MaxRecognized)

PipelineResults ==
    [tanglish_tamil   : {<<>>, TextOf(<< <<5, 5>>, <<3>> >>, "tamil")},
     english          : {<<>>, TextOf(<< <<5, 5>> >>, "a"),
                         TextOf(<< <<7, 7, 7, 7, 7, 7, 7>>, <<2>>, <<4, 4>> >>, "a")},
     tanglish_english : {FailedMessage, TextOf(<< <<5, 5>>, <<3>> >>, "a")},
     tamil            : {<<" ">>, TextOf(<< <<5>> >>, "tamil")}]

InitPipeline ==
    /\ pc = "pipe_start"
    /\ \E media \in MediaDurations :
          video_duration = media[1] /\ audio_duration = media[2]
    /\ results \in PipelineResults
    /\ recognized = <<>>
    /\ lang_index = 0
    /\ srt_files = EmptyDict
    /\ files = EmptyDict
    /\ warnings = {}
    /\ returned = EmptyDict
    /\ srt_content = <<>>
    /\ fallback_segments = <<>>
    /\ IdleSplit /\ IdleNorm /\ IdleAlign /\ IdleOther

\* lines 322-327: the normalizer's timeline, [] when the recognizer raises
GenerateBase ==
    /\ pc = "pipe_start"
    /\ \E raw \in RecognizedLists(audio_duration), raised \in BOOLEAN :
          /\ raised => raw = <<>>
          /\ recognized' = raw
          /\ av_offset' = get_audio_video_offset(video_duration, audio_duration)
          /\ base_timed_segments' =
                 IF raised THEN <<>>
                 ELSE NormalizeSegments(raw, get_audio_video_offset(video_duration,
                                                                    audio_duration))
    /\ pc' = "pipe_base_generated"
    /\ UNCHANGED <<splitVars, yielded, timed_segments, cleaned_segments, absorbed, idx,
                   fallbackVars, new_text, language_hint, aligned_segments,
                   results, lang_index, srt_files, files, warnings, returned, srt_content,
                   otherVars>>

\* line 330
FallbackNeeded == base_timed_segments = <<>> /\ results.tanglish_tamil # <<>>

\* lines 330-336: the fallback timeline takes the place of the empty one
UseFallback ==
    /\ pc = "pipe_base_generated"
    /\ FallbackNeeded
    /\ fallback_segments' =
           create_smart_fallback_segments(audio_duration, video_duration,
                                          results.tanglish_tamil)
    /\ base_timed_segments' = fallback_segments'
    /\ pc' = "pipe_base_ready"
    /\ UNCHANGED <<splitVars, normVars, video_duration, audio_duration,
                   new_text, language_hint, aligned_segments, pipeVars, otherVars>>

\* control has reached line 338
AtBaseCheck ==
    \/ pc = "pipe_base_ready"
    \/ pc = "pipe_base_generated" /\ ~FallbackNeeded

\* lines 338-340: no timeline; return {}
NoTimingSegments ==
    /\ AtBaseCheck
    /\ base_timed_segments = <<>>
    /\ returned' = EmptyDict
    /\ pc' = "pipe_returned"
    /\ UNCHANGED <<splitVars, normVars, fallbackVars, alignVars,
                   results, recognized, lang_index, srt_files, files, warnings, srt_content,
                   otherVars>>

\* lines 342-345: on to the language blocks
StartLanguages ==
    /\ AtBaseCheck
    /\ base_timed_segments # <<>>
    /\ lang_index' = 1
    /\ pc' = "pipe_languages"
    /\ UNCHANGED <<splitVars, normVars, fallbackVars, alignVars,
                   results, recognized, srt_files, files, warnings, returned, srt_content,
                   otherVars>>

\* GenerateLanguageSrt with the aligned segments written over the base
\* timeline, as if the alignment worked in place
GenerateLanguageSrtInPlace ==
    /\ pc = "pipe_languages"
    /\ lang_index <= Len(LanguageBlocks)
    /\ LET block == LanguageBlocks[lang_index]
           aligned == align_text_to_timing(base_timed_segments, results[block.key],
                                           block.hint)
           content == create_srt_content(aligned)
       IN  IF BlockRuns(lang_index)
           THEN /\ new_text' = results[block.key]
                /\ language_hint' = block.hint
                /\ aligned_segments' = aligned
                /\ IF aligned # <<>> /\ content # <<>>
                   THEN /\ files' = DictWith(files, block.file, content)
                        /\ srt_files' = DictWith(srt_files, block.key, block.file)
                   ELSE UNCHANGED <<files, srt_files>>
           ELSE UNCHANGED <<new_text, language_hint, aligned_segments, files, srt_files>>
    /\ base_timed_segments' =
           LET block == LanguageBlocks[lang_index]
               aligned == align_text_to_timing(base_timed_segments, results[block.key],
                                               block.hint)
           IN  IF BlockRuns(lang_index) /\ aligned # <<>> THEN aligned
               ELSE base_timed_segments
    /\ lang_index' = lang_index + 1
    /\ pc' = IF lang_index = Len(LanguageBlocks) THEN "pipe_validate" ELSE pc
    /\ UNCHANGED <<splitVars, normVars, fallbackVars,
                   results, recognized, warnings, returned, srt_content,
                   otherVars>>

\* lines 346-416: one language block: align, render, write the file
GenerateLanguageSrt ==
    /\ pc = "pipe_languages"
    /\ lang_index <= Len(LanguageBlocks)
    /\ LET block == LanguageBlocks[lang_index]
           aligned == align_text_to_timing(base_timed_segments, results[block.key],
                                           block.hint)
           content == create_srt_content(aligned)
       IN  IF BlockRuns(lang_index)
           THEN /\ new_text' = results[block.key]
                /\ language_hint' = block.hint
                /\ aligned_segments' = aligned
                /\ IF aligned # <<>> /\ content # <<>>
                   THEN /\ files' = DictWith(files, block.file, content)
                        /\ srt_files' = DictWith(srt_files, block.key, block.file)
                   ELSE UNCHANGED <<files, srt_files>>
           ELSE UNCHANGED <<new_text, language_hint, aligned_segments, files, srt_files>>
    /\ lang_index' = lang_index + 1
    /\ pc' = IF lang_index = Len(LanguageBlocks) THEN "pipe_validate" ELSE pc
    /\ UNCHANGED <<splitVars, normVars, fallbackVars, base_timed_segments,
                   results, recognized, warnings, returned, srt_content,
                   otherVars>>

\* lines 359, 438-442: the file of a block cannot be written; return {}
WriteFails ==
    /\ pc = "pipe_languages"
    /\ lang_index <= Len(LanguageBlocks)
    /\ BlockRuns(lang_index)
    /\ create_srt_content(align_text_to_timing(base_timed_segments,
                                               results[LanguageBlocks[lang_index].key],
                                               LanguageBlocks[lang_index].hint)) # <<>>
    /\ returned' = EmptyDict
    /\ pc' = "pipe_returned"
    /\ UNCHANGED <<splitVars, normVars, fallbackVars, alignVars,
                   results, recognized, lang_index, srt_files, files, warnings, srt_content,
                   otherVars>>

\* lines 418-436: warn about files that run past the video; return srt_files
ValidateAndReturn ==
    /\ pc = "pipe_validate"
    /\ warnings' = {key \in DOMAIN srt_files : ExtendsBeyondVideo(files[srt_files[key]])}
    /\ returned' = srt_files
    /\ pc' = "pipe_returned"
    /\ UNCHANGED <<splitVars, normVars, fallbackVars, alignVars,
                   results, recognized, lang_index, srt_files, files, srt_content,
                   otherVars>>

Next ==
    \/ GenerateBase
    \/ UseFallback
    \/ NoTimingSegments
    \/ StartLanguages
    \/ GenerateLanguageSrt
    \/ WriteFails
    \/ ValidateAndReturn

Spec == InitPipeline /\ [][Next]_vars

\* the duration of the media: the video's, or the audio's when the video's
\* cannot be read
MediaDuration == IF video_duration # 0 THEN video_duration ELSE audio_duration

(* C3: in the pipeline, for every language and whichever path built the    *)
(* base timeline, no block written to a subtitle file ends later than the  *)
(* media's total duration.                                                 *)
C3_EndsWithinDuration ==
    \A path \in DOMAIN files :
        \A i \in 1..Len(files[path]) :
            TimestampValue(files[path][i].end_time,
                           Len(files[path][i].end_time) - 10) <= MediaDuration


\* a language text that is not empty and is not the message of a failed
\* translation
LanguageTextPresent ==
    \E key \in DOMAIN results :
        /\ Strip(results[key]) # <<>>
        /\ results[key] # FailedMessage

(* C13: in the pipeline, whenever the normalizer's timeline is empty (the   *)
(* recognizer raised, yielded nothing, or every segment was filtered out)  *)
(* and some language text is non-empty, the next step builds the base      *)
(* timeline with the fallback builder; the job does not go on to return    *)
(* without subtitle files.                                                 *)
C13_FallbackWhenEmpty ==
    [][(/\ pc = "pipe_base_generated"
        /\ base_timed_segments = <<>>
        /\ LanguageTextPresent)
       => /\ pc' = "pipe_base_ready"
          /\ fallback_segments' =
                 create_smart_fallback_segments(audio_duration, video_duration,
                                                results.tanglish_tamil)]_vars


\* the text of cue k is its segment's trimmed text, unchanged
EmittedUnchanged(k) == srt_content[k].text = Strip(CueSegments[k].text)

\* the text of cue k is the words of t on two lines, broken after word b
TwoLineForm(k, t, b) ==
    LET words == Words(t)
        line1 == JoinWords(SubSeq(words, 1, b))
        line2 == JoinWords(SubSeq(words, b + 1, Len(words)))
    IN  /\ srt_content[k].text = line1 \o <<"\n">> \o line2
        /\ Len(line1) <= 35
        /\ Len(line2) <= 35

(* C21: create_srt_content replaces a segment's text by a two-line form    *)
(* only when the text has more than 50 characters and more than 6 words    *)
(* and both lines are at most 35 characters long; in every other case the  *)
(* trimmed text is emitted unchanged.                                      *)
C21_WrapOnlyWhenFits ==
    SrtReturned =>
        \A k \in 1..Len(srt_content) :
            LET t == Strip(CueSegments[k].text)
            IN  \/ EmittedUnchanged(k)
                \/ /\ Len(t) > 50
                   /\ WordCount(t) > 6
                   /\ \E b \in 1..(WordCount(t) - 1) : TwoLineForm(k, t, b)

\* a long text was put on two lines
C21_Witness ==
    /\ SrtReturned
    /\ \E k \in 1..Len(srt_content) :
          /\ ~EmittedUnchanged(k)
          /\ Len(Strip(CueSegments[k].text)) > 50
          /\ LineCount(srt_content[k].text) = 2


(* C23: align_text_to_timing leaves the base timeline unchanged, so in the *)
(* pipeline each of the four alignments sees the same base timeline,       *)
(* whatever the order and the outcome of the others: while the language    *)
(* blocks run the base timeline does not change, and the segments a block  *)
(* aligns are those of its text on that timeline.                          *)
C23_BaseReadOnly ==
    [][pc = "pipe_languages" =>
          /\ base_timed_segments' = base_timed_segments
          /\ aligned_segments' # aligned_segments =>
                 aligned_segments' =
                     align_text_to_timing(base_timed_segments', new_text', language_hint')]_vars

\* all four blocks have aligned their text and written their file
C23_Witness ==
    /\ pc = "pipe_returned"
    /\ base_timed_segments # <<>>
    /\ Cardinality(DOMAIN returned) = 4
    /\ aligned_segments # base_timed_segments


\* the texts of a timeline joined by single spaces, in its order
RECURSIVE JoinedText(_)
JoinedText(tl) ==
    IF tl = <<>> THEN <<>>
    ELSE IF Len(tl) = 1 THEN tl[1].text
    ELSE JoinedText(SubSeq(tl, 1, Len(tl) - 1)) \o <<" ">> \o tl[Len(tl)].text

\* the recognized segments that pass the duration and length filter, with
\* their trimmed text and their shifted start, in non-decreasing order of
\* that start
ShiftedSurvivors ==
    LET passed == SelectSeq(recognized,
                            LAMBDA seg : /\ seg.end - seg.start >= min_segment_duration
                                         /\ Len(Strip(seg.text)) >= 2)
    IN  SortByStart([k \in 1..Len(passed) |->
                        [start |-> Max(0, passed[k].start - av_offset),
                         text  |-> Strip(passed[k].text)]])

(* C27: overlap resolution in the normalizer loses no text: the texts of   *)
(* its output segments joined with single spaces, in output order, are     *)
(* the trimmed texts of the raw segments that passed the duration and      *)
(* length filter, in non-decreasing order of shifted start, joined with    *)
(* single spaces; a raw segment the filter removed contributes nothing.    *)
C27_NoTextLost ==
    pc = "pipe_base_generated" =>
        JoinedText(base_timed_segments) = JoinedText(ShiftedSurvivors)

\* two recognized segments were merged into one that holds both texts, the
\* second one trimmed
C27_Witness ==
    /\ pc = "pipe_base_generated"
    /\ Len(recognized) = 2
    /\ Len(base_timed_segments) = 1
    /\ base_timed_segments[1].text = <<"c", "d", " ", "e", "f">>


-----------------------------------------------------------------------------
(* Specification of the cleanup lock of ProductionCleanupManager: several  *)
(* processes, each with its own manager, share one lock file path.  Every  *)
(* system call of acquire_cleanup_lock and release_cleanup_lock is a step  *)
(* of its own, so that the steps of different processes interleave.  A     *)
(* flock belongs to the open file it was taken through and is dropped when *)
(* that file is unlocked or closed; removing the path leaves the inode to  *)
(* the files still open on it.                                             *)

MaxProcs == 3
MaxInodes == 3

Procs == 1..MaxProcs
Inodes == 1..MaxInodes

\* the flocks after process p gives up the one its open file holds, if any
Unlocked(owner, p, fd) ==
    IF fd \in DOMAIN owner /\ owner[fd] = p THEN [owner EXCEPT ![fd] = 0] ELSE owner

\* the variables the lock functions never touch
outsideLock ==
    <<pc, splitVars, normVars, fallbackVars, alignVars, pipeVars, timestampVars, routeVars>>

\* line 22 of __init__ in every process; no lock file yet
InitLock ==
    /\ pc = "lock_running"
    /\ lock_file = 0
    /\ inode_count = 0
    /\ flock_owner = [i \in Inodes |-> 0]
    /\ lock_fd = [p \in Procs |-> 0]
    /\ is_master_process = [p \in Procs |-> FALSE]
    /\ lock_at = [p \in Procs |-> "idle"]
    /\ lock_caller = [p \in Procs |-> "none"]
    /\ IdleSplit /\ IdleNorm /\ IdleFallback /\ IdleAlign /\ IdlePipe /\ IdleTimestamp
    /\ IdleRoutes

\* lines 212-214: start_scheduled_cleanup calls acquire_cleanup_lock
StartScheduledCleanup(p) ==
    /\ lock_at[p] = "idle"
    /\ lock_at' = [lock_at EXCEPT ![p] = "open"]
    /\ lock_caller' = [lock_caller EXCEPT ![p] = "start"]
    /\ UNCHANGED <<lock_file, inode_count, flock_owner, lock_fd, is_master_process>>
    /\ UNCHANGED outsideLock

\* lines 246-251: manual_cleanup of a process that is not master calls
\* acquire_cleanup_lock (a master process runs the cleanup without the lock
\* functions, lines 259-260)
ManualCleanup(p) ==
    /\ lock_at[p] = "idle"
    /\ ~is_master_process[p]
    /\ lock_at' = [lock_at EXCEPT ![p] = "open"]
    /\ lock_caller' = [lock_caller EXCEPT ![p] = "manual"]
    /\ UNCHANGED <<lock_file, inode_count, flock_owner, lock_fd, is_master_process>>
    /\ UNCHANGED outsideLock

\* lines 238-243: stop_scheduled_cleanup calls release_cleanup_lock, which
\* does nothing without a lock_fd attribute (line 41)
StopScheduledCleanup(p) ==
    /\ lock_at[p] = "idle"
    /\ lock_fd[p] # 0
    /\ lock_at' = [lock_at EXCEPT ![p] = "unlock"]
    /\ lock_caller' = [lock_caller EXCEPT ![p] = "stop"]
    /\ UNCHANGED <<lock_file, inode_count, flock_owner, lock_fd, is_master_process>>
    /\ UNCHANGED outsideLock

\* line 27: open(self.lock_file, 'w') opens the file the path names or
\* creates it; the file self.lock_fd held before is dropped and so closed
AcquireOpen(p) ==
    /\ lock_at[p] = "open"
    /\ IF lock_file # 0
       THEN /\ lock_fd' = [lock_fd EXCEPT ![p] = lock_file]
            /\ UNCHANGED <<lock_file, inode_count>>
       ELSE /\ inode_count < MaxInodes
            /\ inode_count' = inode_count + 1
            /\ lock_file' = inode_count + 1
            /\ lock_fd' = [lock_fd EXCEPT ![p] = inode_count + 1]
    /\ flock_owner' = Unlocked(flock_owner, p, lock_fd[p])
    /\ lock_at' = [lock_at EXCEPT ![p] = "flock"]
    /\ UNCHANGED <<is_master_process, lock_caller>>
    /\ UNCHANGED outsideLock

\* where a process goes when acquire_cleanup_lock returns True: the cleanup
\* of manual_cleanup (line 253) or the end of start_scheduled_cleanup
AfterAcquired(p) == IF lock_caller[p] = "manual" THEN "cleanup" ELSE "idle"

\* lines 28-33: flock(LOCK_EX | LOCK_NB) succeeds on an inode nobody has
\* locked; the process writes its pid and becomes master
AcquireFlock(p) ==
    /\ lock_at[p] = "flock"
    /\ flock_owner[lock_fd[p]] = 0
    /\ flock_owner' = [flock_owner EXCEPT ![lock_fd[p]] = p]
    /\ is_master_process' = [is_master_process EXCEPT ![p] = TRUE]
    /\ lock_at' = [lock_at EXCEPT ![p] = AfterAcquired(p)]
    /\ UNCHANGED <<lock_file, inode_count, lock_fd, lock_caller>>
    /\ UNCHANGED outsideLock

\* lines 28, 34-36: flock raises on a locked inode; acquire_cleanup_lock
\* returns False and both callers return (lines 214-216, 257-258)
AcquireRefused(p) ==
    /\ lock_at[p] = "flock"
    /\ flock_owner[lock_fd[p]] # 0
    /\ lock_at' = [lock_at EXCEPT ![p] = "idle"]
    /\ UNCHANGED <<lock_file, inode_count, flock_owner, lock_fd, is_master_process,
                   lock_caller>>
    /\ UNCHANGED outsideLock

\* lines 252-255: cleanup_old_files has run and the finally clause calls
\* release_cleanup_lock
CleanupOldFiles(p) ==
    /\ lock_at[p] = "cleanup"
    /\ lock_at' = [lock_at EXCEPT ![p] = "unlock"]
    /\ UNCHANGED <<lock_file, inode_count, flock_owner, lock_fd, is_master_process,
                   lock_caller>>
    /\ UNCHANGED outsideLock

\* where a process goes when release_cleanup_lock returns: line 256 of
\* manual_cleanup or the end of stop_scheduled_cleanup
AfterReleased(p) == IF lock_caller[p] = "manual" THEN "reset" ELSE "idle"

\* line 42: flock(LOCK_UN); on a closed file it raises, and lines 47-48
\* log the error and return
ReleaseUnlock(p) ==
    /\ lock_at[p] = "unlock"
    /\ IF lock_fd[p] = -1
       THEN /\ lock_at' = [lock_at EXCEPT ![p] = AfterReleased(p)]
            /\ UNCHANGED flock_owner
       ELSE /\ flock_owner' = Unlocked(flock_owner, p, lock_fd[p])
            /\ lock_at' = [lock_at EXCEPT ![p] = "close"]
    /\ UNCHANGED <<lock_file, inode_count, lock_fd, is_master_process, lock_caller>>
    /\ UNCHANGED outsideLock

\* line 43: self.lock_fd.close()
ReleaseClose(p) ==
    /\ lock_at[p] = "close"
    /\ lock_fd' = [lock_fd EXCEPT ![p] = -1]
    /\ lock_at' = [lock_at EXCEPT ![p] = "remove"]
    /\ UNCHANGED <<lock_file, inode_count, flock_owner, is_master_process, lock_caller>>
    /\ UNCHANGED outsideLock

\* lines 44-46: the lock file is removed if the path exists
ReleaseRemove(p) ==
    /\ lock_at[p] = "remove"
    /\ lock_file' = 0
    /\ lock_at' = [lock_at EXCEPT ![p] = AfterReleased(p)]
    /\ UNCHANGED <<inode_count, flock_owner, lock_fd, is_master_process, lock_caller>>
    /\ UNCHANGED outsideLock

\* line 256: manual_cleanup resets is_master_process
ManualReset(p) ==
    /\ lock_at[p] = "reset"
    /\ is_master_process' = [is_master_process EXCEPT ![p] = FALSE]
    /\ lock_at' = [lock_at EXCEPT ![p] = "idle"]
    /\ UNCHANGED <<lock_file, inode_count, flock_owner, lock_fd, lock_caller>>
    /\ UNCHANGED outsideLock

NextLock ==
    \/ \E p \in Procs : StartScheduledCleanup(p)
    \/ \E p \in Procs : ManualCleanup(p)
    \/ \E p \in Procs : StopScheduledCleanup(p)
    \/ \E p \in Procs : AcquireOpen(p)
    \/ \E p \in Procs : AcquireFlock(p)
    \/ \E p \in Procs : AcquireRefused(p)
    \/ \E p \in Procs : CleanupOldFiles(p)
    \/ \E p \in Procs : ReleaseUnlock(p)
    \/ \E p \in Procs : ReleaseClose(p)
    \/ \E p \in Procs : ReleaseRemove(p)
    \/ \E p \in Procs : ManualReset(p)

SpecLock == InitLock /\ [][NextLock]_vars

\* process p holds the flock through its open lock file
HoldsCleanupLock(p) == lock_fd[p] \in Inodes /\ flock_owner[lock_fd[p]] = p

(* C28: across any number of processes that share the lock file, and for   *)
(* any interleaving of acquire_cleanup_lock and release_cleanup_lock       *)
(* (which unlocks, closes and then deletes the lock file), at most one     *)
(* process at a time holds the cleanup lock and is master.                 *)
C28_OneMaster ==
    pc = "lock_running" =>
        Cardinality({p \in Procs : HoldsCleanupLock(p) /\ is_master_process[p]}) <= 1


-----------------------------------------------------------------------------
(* Specification of the processing routes for one uploaded video whose     *)
(* directory exists: POST /process requests, the process_video_async       *)
(* threads they start and the status_stream connections.  The requests,    *)
(* threads and generators run in threads of one server process and share   *)
(* processing_status and sse_clients; each step below is one access to     *)
(* that shared state.  The progress broadcasts of lines 109-260 are        *)
(* MaxProgress broadcasts of status 'processing'.                          *)

MaxRequests == 2
MaxJobs == 2
MaxClients == 1
MaxProgress == 1

Requests == 1..MaxRequests
Jobs == 1..MaxJobs
Clients == 1..MaxClients

TerminalStatuses == {"completed", "error"}

\* the variables the routes never touch
outsideRoutes ==
    <<pc, splitVars, normVars, fallbackVars, alignVars, pipeVars, timestampVars, lockVars>>

\* lines 28-29: no status and no client at start
InitRoutes ==
    /\ pc = "routes_running"
    /\ processing_status = "none"
    /\ sse_clients = <<>>
    /\ request_at = [r \in Requests |-> "none"]
    /\ request_answer = [r \in Requests |-> "none"]
    /\ job_at = [j \in Jobs |-> "unborn"]
    /\ job_data = [j \in Jobs |-> "none"]
    /\ job_progress = [j \in Jobs |-> 0]
    /\ client_at = [c \in Clients |-> "absent"]
    /\ client_queue = [c \in Clients |-> <<>>]
    /\ sent = [c \in Clients |-> <<>>]
    /\ IdleSplit /\ IdleNorm /\ IdleFallback /\ IdleAlign /\ IdlePipe /\ IdleTimestamp
    /\ IdleLock

\* lines 348-359: a POST /process request for the upload arrives
RequestArrives(r) ==
    /\ request_at[r] = "none"
    /\ request_at' = [request_at EXCEPT ![r] = "check"]
    /\ UNCHANGED <<processing_status, sse_clients, request_answer, job_at, job_data,
                   job_progress, client_at, client_queue, sent>>
    /\ UNCHANGED outsideRoutes

\* lines 361-366: the two checks of the stored status
RequestChecks(r) ==
    /\ request_at[r] = "check"
    /\ IF processing_status = "processing"
       THEN /\ request_answer' = [request_answer EXCEPT ![r] = "Already processing"]
            /\ request_at' = [request_at EXCEPT ![r] = "done"]
       ELSE IF processing_status = "completed"
       THEN /\ request_answer' = [request_answer EXCEPT ![r] = "completed"]
            /\ request_at' = [request_at EXCEPT ![r] = "done"]
       ELSE /\ request_at' = [request_at EXCEPT ![r] = "start"]
            /\ UNCHANGED request_answer
    /\ UNCHANGED <<processing_status, sse_clients, job_at, job_data, job_progress,
                   client_at, client_queue, sent>>
    /\ UNCHANGED outsideRoutes

\* lines 369-380: the request starts a thread on process_video_async and
\* answers 'processing_started'
RequestStartsThread(r) ==
    /\ request_at[r] = "start"
    /\ \E j \in Jobs :
          /\ job_at[j] = "unborn"
          /\ \A i \in Jobs : i < j => job_at[i] # "unborn"
          /\ job_at' = [job_at EXCEPT ![j] = "started"]
    /\ request_answer' = [request_answer EXCEPT ![r] = "processing_started"]
    /\ request_at' = [request_at EXCEPT ![r] = "done"]
    /\ UNCHANGED <<processing_status, sse_clients, job_data, job_progress, client_at,
                   client_queue, sent>>
    /\ UNCHANGED outsideRoutes

\* a thread calls broadcast_status_update with status_data
CallBroadcast(j, status_data) ==
    /\ job_data' = [job_data EXCEPT ![j] = status_data]
    /\ job_at' = [job_at EXCEPT ![j] = "broadcast_set"]

\* lines 88-95: the thread starts to run and calls the first broadcast
JobBegins(j) ==
    /\ job_at[j] = "started"
    /\ CallBroadcast(j, "processing")
    /\ UNCHANGED <<processing_status, sse_clients, request_at, request_answer, job_progress,
                   client_at, client_queue, sent>>
    /\ UNCHANGED outsideRoutes

\* line 33 of broadcast_status_update: the status is stored
BroadcastSet(j) ==
    /\ job_at[j] = "broadcast_set"
    /\ processing_status' = job_data[j]
    /\ job_at' = [job_at EXCEPT ![j] = "broadcast_put"]
    /\ UNCHANGED <<sse_clients, request_at, request_answer, job_data, job_progress,
                   client_at, client_queue, sent>>
    /\ UNCHANGED outsideRoutes

\* the registered connections
Registered == {sse_clients[k] : k \in 1..Len(sse_clients)}

\* lines 36-47 of broadcast_status_update: the status is put on the queue of
\* every registered client (the queues are unbounded, so no put fails);
\* after a terminal status the thread ends
BroadcastPut(j) ==
    /\ job_at[j] = "broadcast_put"
    /\ client_queue' = [c \in Clients |->
                           IF c \in Registered THEN Append(client_queue[c], job_data[j])
                           ELSE client_queue[c]]
    /\ job_at' = [job_at EXCEPT ![j] =
                     IF job_data[j] \in TerminalStatuses THEN "finished" ELSE "working"]
    /\ UNCHANGED <<processing_status, sse_clients, request_at, request_answer, job_data,
                   job_progress, client_at, sent>>
    /\ UNCHANGED outsideRoutes

\* lines 109-260: a stage of the processing is done and reported
JobProgress(j) ==
    /\ job_at[j] = "working"
    /\ job_progress[j] < MaxProgress
    /\ job_progress' = [job_progress EXCEPT ![j] = job_progress[j] + 1]
    /\ CallBroadcast(j, "processing")
    /\ UNCHANGED <<processing_status, sse_clients, request_at, request_answer, client_at,
                   client_queue, sent>>
    /\ UNCHANGED outsideRoutes

\* lines 278-290: all stages are done
JobCompletes(j) ==
    /\ job_at[j] = "working"
    /\ job_progress[j] = MaxProgress
    /\ CallBroadcast(j, "completed")
    /\ UNCHANGED <<processing_status, sse_clients, request_at, request_answer, job_progress,
                   client_at, client_queue, sent>>
    /\ UNCHANGED outsideRoutes

\* lines 292-297: a stage raises
JobFails(j) ==
    /\ job_at[j] = "working"
    /\ CallBroadcast(j, "error")
    /\ UNCHANGED <<processing_status, sse_clients, request_at, request_answer, job_progress,
                   client_at, client_queue, sent>>
    /\ UNCHANGED outsideRoutes

\* lines 418-424: the generator of a new connection creates its queue and
\* registers it
ClientRegisters(c) ==
    /\ client_at[c] = "absent"
    /\ sse_clients' = Append(sse_clients, c)
    /\ client_at' = [client_at EXCEPT ![c] = "registered"]
    /\ UNCHANGED <<processing_status, request_at, request_answer, job_at, job_data,
                   job_progress, client_queue, sent>>
    /\ UNCHANGED outsideRoutes

\* lines 428-430: the stored status, if there is one, is sent at once
ClientSendsCurrent(c) ==
    /\ client_at[c] = "registered"
    /\ sent' = IF processing_status # "none"
               THEN [sent EXCEPT ![c] = Append(sent[c], processing_status)]
               ELSE sent
    /\ client_at' = [client_at EXCEPT ![c] = "listening"]
    /\ UNCHANGED <<processing_status, sse_clients, request_at, request_answer, job_at,
                   job_data, job_progress, client_queue>>
    /\ UNCHANGED outsideRoutes

\* lines 433-441: client_queue.get returns a status, which is sent; a
\* terminal status ends the loop
ClientGets(c) ==
    /\ client_at[c] = "listening"
    /\ client_queue[c] # <<>>
    /\ client_queue' = [client_queue EXCEPT ![c] = Tail(client_queue[c])]
    /\ sent' = [sent EXCEPT ![c] = Append(sent[c], Head(client_queue[c]))]
    /\ client_at' = [client_at EXCEPT ![c] =
                        IF Head(client_queue[c]) \in TerminalStatuses THEN "leaving"
                        ELSE "listening"]
    /\ UNCHANGED <<processing_status, sse_clients, request_at, request_answer, job_at,
                   job_data, job_progress>>
    /\ UNCHANGED outsideRoutes

\* lines 436, 443: nothing arrived for 30 seconds and client_queue.get
\* raises queue.Empty
ClientTimesOut(c) ==
    /\ client_at[c] = "listening"
    /\ client_queue[c] = <<>>
    /\ client_at' = [client_at EXCEPT ![c] = "timed_out"]
    /\ UNCHANGED <<processing_status, sse_clients, request_at, request_answer, job_at,
                   job_data, job_progress, client_queue, sent>>
    /\ UNCHANGED outsideRoutes

\* lines 444-445: a keepalive event is sent and the loop goes on
ClientKeepalive(c) ==
    /\ client_at[c] = "timed_out"
    /\ client_at' = [client_at EXCEPT ![c] = "listening"]
    /\ UNCHANGED <<processing_status, sse_clients, request_at, request_answer, job_at,
                   job_data, job_progress, client_queue, sent>>
    /\ UNCHANGED outsideRoutes

\* a list without the first occurrence of an element (list.remove)
RemoveFirst(list, x) ==
    IF \E k \in 1..Len(list) : list[k] = x
    THEN LET k == CHOOSE i \in 1..Len(list) :
                      list[i] = x /\ \A h \in 1..(i - 1) : list[h] # x
         IN  SubSeq(list, 1, k - 1) \o SubSeq(list, k + 1, Len(list))
    ELSE list

\* lines 450-453 after the loop ended: the queue is unregistered and the
\* stream closes
ClientCloses(c) ==
    /\ client_at[c] = "leaving"
    /\ sse_clients' = RemoveFirst(sse_clients, c)
    /\ client_at' = [client_at EXCEPT ![c] = "closed"]
    /\ UNCHANGED <<processing_status, request_at, request_answer, job_at, job_data,
                   job_progress, client_queue, sent>>
    /\ UNCHANGED outsideRoutes

\* lines 447-453: the client went away; the generator gets GeneratorExit at
\* the yield it is suspended in, or at its next one (at the latest the next
\* keepalive), and runs the finally clause
ClientDisconnects(c) ==
    /\ client_at[c] \in {"listening", "timed_out", "leaving"}
    /\ sse_clients' = RemoveFirst(sse_clients, c)
    /\ client_at' = [client_at EXCEPT ![c] = "disconnected"]
    /\ UNCHANGED <<processing_status, request_at, request_answer, job_at, job_data,
                   job_progress, client_queue, sent>>
    /\ UNCHANGED outsideRoutes

NextRoutes ==
    \/ \E r \in Requests : RequestArrives(r)
    \/ \E r \in Requests : RequestChecks(r)
    \/ \E r \in Requests : RequestStartsThread(r)
    \/ \E j \in Jobs : JobBegins(j)
    \/ \E j \in Jobs : BroadcastSet(j)
    \/ \E j \in Jobs : BroadcastPut(j)
    \/ \E j \in Jobs : JobProgress(j)
    \/ \E j \in Jobs : JobCompletes(j)
    \/ \E j \in Jobs : JobFails(j)
    \/ \E c \in Clients : ClientRegisters(c)
    \/ \E c \in Clients : ClientSendsCurrent(c)
    \/ \E c \in Clients : ClientGets(c)
    \/ \E c \in Clients : ClientTimesOut(c)
    \/ \E c \in Clients : ClientKeepalive(c)
    \/ \E c \in Clients : ClientCloses(c)
    \/ \E c \in Clients : ClientDisconnects(c)

SpecRoutes == InitRoutes /\ [][NextRoutes]_vars

\* the threads on process_video_async that have been started and have not
\* finished
RunningJobs == {j \in Jobs : job_at[j] \notin {"unborn", "finished"}}

(* C29: for any interleaving of POST /process requests for one upload_id,  *)
(* at most one background processing job for that upload runs at a time:  *)
(* a request that arrives while a job for the upload has been started and  *)
(* has not finished answers 'Already processing' and starts no second job. *)
C29_OneJobPerUpload ==
    pc = "routes_running" => Cardinality(RunningJobs) <= 1


\* the steps of the threads that are running: the server schedules every
\* request thread, every process_video_async thread and every generator
\* again and again (a queue.get that finds nothing times out after 30
\* seconds), and a job reaches the end of its stages or raises; whether a
\* request or a client arrives, and whether a client
\* goes away, is not up to the server
RoutesFairness ==
    /\ \A r \in Requests : WF_vars(RequestChecks(r)) /\ WF_vars(RequestStartsThread(r))
    /\ \A j \in Jobs : /\ WF_vars(JobBegins(j))
                       /\ WF_vars(BroadcastSet(j))
                       /\ WF_vars(BroadcastPut(j))
                       /\ WF_vars(JobProgress(j) \/ JobCompletes(j) \/ JobFails(j))
    /\ \A c \in Clients : /\ WF_vars(ClientSendsCurrent(c))
                          /\ WF_vars(ClientGets(c))
                          /\ WF_vars(ClientTimesOut(c))
                          /\ WF_vars(ClientKeepalive(c))
                          /\ WF_vars(ClientCloses(c))

SpecRoutesFair == InitRoutes /\ [][NextRoutes]_vars /\ RoutesFairness

\* the connection is open: its generator has registered the queue and has
\* not ended
Connected(c) == client_at[c] \in {"registered", "listening", "timed_out", "leaving"}

\* the stream of the connection has ended with its queue unregistered,
\* after a terminal status as its last status event or because the client
\* went away
StreamEnded(c) ==
    /\ c \notin Registered
    /\ \/ client_at[c] = "disconnected"
       \/ /\ client_at[c] = "closed"
          /\ sent[c] # <<>>
          /\ sent[c][Len(sent[c])] \in TerminalStatuses

(* C30: every status-stream connection for an upload whose job reaches     *)
(* status 'completed' or 'error' eventually delivers that terminal status  *)
(* to the client and then closes the stream and unregisters its queue,     *)
(* whether the client connected before, during or after the job.           *)
C30_StreamEnds ==
    \A c \in Clients :
        (Connected(c) /\ processing_status \in TerminalStatuses) ~> StreamEnded(c)

\* a terminal broadcast that starts while the connection is registered
\* reaches the client, and the stream then ends
TerminalBroadcastWhileConnected(c) ==
    /\ c \in Registered
    /\ \E j \in Jobs : job_at[j] = "broadcast_put" /\ job_data[j] \in TerminalStatuses

StreamEndsAfterBroadcast ==
    \A c \in Clients : TerminalBroadcastWhileConnected(c) ~> StreamEnded(c)

=============================================================================
